---- MODULE Spec2Model ----
(***************************************************************************)
(* Model of the cv-maker backend (cv-app-ng-backend/app).                  *)
(*                                                                         *)
(* SpecEval   : EvaluationService.evaluate_cv_complete, its two tracks     *)
(*              (evaluate_cv_with_ragas, evaluate_cv_with_committee) and   *)
(*              the persona calls they fan out to.                         *)
(*              SpecEvalFair adds the fairness of the event loop.          *)
(* SpecTailor : tailoring requests (routes/cv_routes.py tailor_cv) against *)
(*              the shared vector store of VectorstoreService;             *)
(*              SpecTailorSequential serves them one after the other.      *)
(* SpecTailorResponse : the try block of tailor_cv for one request.        *)
(* SpecVectorstore : the methods of VectorstoreService on their own.       *)
(* SpecDate, SpecTransform : DataTransformationService on bounded inputs.  *)
(* SpecSanitize : utils/security.py sanitize_user_input on character       *)
(*              strings.                                                   *)
(* SpecExtract : the post-processing of the model reply in                 *)
(*              AIService.extract_structured_cv_data.                      *)
(*                                                                         *)
(* Numbers.  A Python number is a record [k, v]: k = "num" for a finite    *)
(* number with value v, "nan" / "inf" / "ninf" for float NaN, +Infinity,   *)
(* -Infinity, "str" for a non-numeric JSON value, "missing" for an absent  *)
(* key.  Persona scores are in whole points; retrieval metrics and         *)
(* average_score are in hundredths (267 is 2.67, 100 is 1.0).              *)
(***************************************************************************)
EXTENDS Integers, Sequences, FiniteSets, TLC

(* ------------------------------ bounds --------------------------------- *)
MaxScore == 2
MaxDocs == 1
MaxRequests == 2
MaxChunks == 1
MaxTokens == 5
MaxEntries == 1
MaxCalls == 3
MaxFragments == 4

(* ------------------------- program constants --------------------------- *)
NumPersonas == 3
RETRIEVAL_K == 7
MinJobDescription == 10
MinCVText == 50

MetricNames == {"faithfulness", "answer_relevancy", "context_precision", "context_recall"}

VARIABLES
    RAGAS_AVAILABLE,        \* module flag set by the conditional import
    EVALUATION_PERSONAS,    \* number of entries of settings.EVALUATION_PERSONAS
    retrieved_docs,         \* number of documents handed to the evaluation
    pcComplete,             \* position of evaluate_cv_complete
    pcRagas,                \* position of evaluate_cv_with_ragas
    pcCommittee,            \* position of evaluate_cv_with_committee
    engineInvoked,          \* ragas.evaluate has been called
    ragas_result,           \* record produced by the engine (before sanitization)
    ragasOutcome,           \* branch evaluate_cv_with_ragas returned through
    ragas_scores,           \* value returned by evaluate_cv_with_ragas
    personaTask,            \* per persona call: "none", "pending", "done", "failed"
    committee_evaluations,  \* per persona call: the mapping it returned
    overtaken,              \* a persona call returned while one dispatched before it was pending
    committee_analysis,     \* value returned by evaluate_cv_with_committee
    evaluation_results,     \* value returned by evaluate_cv_complete
    MOCK_PINECONE,          \* settings.MOCK_PINECONE: in-memory Chroma, else external Pinecone
    OPENAI_API_KEY,         \* settings.OPENAI_API_KEY is set: the embeddings can be built
    vs_calls,               \* the calls made on the VectorstoreService directly, with their outcomes
    index,                  \* documents held by the vector store
    running,                \* request executing on the event loop without having awaited (0: none)
    pc,                     \* per request: position in tailor_cv
    user_cv_text,           \* per request: request.user_cv_text
    job_description,        \* per request: request.job_description
    http_error,             \* per request: the HTTPException a validator raised
    docs,                   \* per request: documents created from the validated text
    retrieved,              \* per request: retrieved_docs (the rank order is not modelled)
    generator_input,        \* per request: CV text handed to extract_structured_cv_data
    date_string,            \* argument of parse_date_string
    now_year,               \* datetime.now().year
    pcDate,                 \* position of the date script: parse, then format, then parse again
    parsed,                 \* value returned by parse_date_string(date_string)
    date_value,             \* argument of format_date
    formatted,              \* outcome of format_date(date_value)
    reparsed,               \* value returned by parse_date_string on the formatted string
    ai_data,                \* raw mapping handed to transform_ai_data_to_cv_data
    pcTransform,            \* position of transform_ai_data_to_cv_data
    cv_data,                \* outcome of transform_ai_data_to_cv_data
    input_text,             \* argument text of sanitize_user_input, a sequence of characters
    max_length,             \* argument of sanitize_user_input
    pcSanitize,             \* position of the sanitize_user_input call
    sanitized,              \* value returned by sanitize_user_input
    content,                \* reply of the generation model, a sequence of characters
    pcExtract,              \* position of the post-processing of the reply
    extracted,              \* outcome of the post-processing of the reply
    pcTry,                  \* position in the try block of tailor_cv
    structured_content,     \* dictionary built from cv_data, later with 'analysis'
    response,               \* HTTP response of tailor_cv
    failure_cause,          \* what went wrong inside the try block of tailor_cv, if anything
    exc                     \* the exception caught by the except clause of tailor_cv

evalVars == <<RAGAS_AVAILABLE, EVALUATION_PERSONAS, retrieved_docs, pcComplete,
              pcRagas, pcCommittee, engineInvoked, ragas_result, ragasOutcome,
              ragas_scores, personaTask, committee_evaluations, overtaken,
              committee_analysis, evaluation_results>>

\* what only the validation of a request sets
requestVars == <<job_description, http_error>>

\* the configuration of the embeddings and the direct calls on the service
storeVars == <<OPENAI_API_KEY, vs_calls>>

tailorVars == <<MOCK_PINECONE, index, running, pc, user_cv_text, docs, retrieved,
                generator_input, requestVars, storeVars>>

dateVars == <<date_string, now_year, pcDate, parsed, date_value, formatted, reparsed>>

transformVars == <<ai_data, pcTransform, cv_data>>

sanitizeVars == <<input_text, max_length, pcSanitize, sanitized>>

extractVars == <<content, pcExtract, extracted>>

\* the variables of the functions on character strings
textVars == <<sanitizeVars, extractVars>>

\* the variables of the pure functions
pureVars == <<dateVars, transformVars, textVars>>

tryVars == <<pcTry, structured_content, response, failure_cause, exc>>

\* configuration and inputs of an evaluation
evalInputs == <<RAGAS_AVAILABLE, EVALUATION_PERSONAS, retrieved_docs>>

\* what no step of an evaluation changes: configuration, inputs, the tailoring requests
evalConfig == <<evalInputs, tailorVars, pureVars, tryVars>>

ragasVars == <<pcRagas, engineInvoked, ragas_result, ragasOutcome, ragas_scores>>

committeeVars == <<pcCommittee, personaTask, committee_evaluations, overtaken,
                   committee_analysis>>

vars == <<evalVars, tailorVars, pureVars, tryVars>>

(* ------------------------------ numbers -------------------------------- *)
Num(n) == [k |-> "num", v |-> n]
NaN == [k |-> "nan", v |-> 0]
PosInf == [k |-> "inf", v |-> 0]
NegInf == [k |-> "ninf", v |-> 0]
NonNumeric == [k |-> "str", v |-> 0]
Missing == [k |-> "missing", v |-> 0]
NoValue == [k |-> "none", v |-> 0]

\* np.isnan(x) or np.isinf(x)
IsNanOrInf(x) == x.k \in {"nan", "inf", "ninf"}

\* isinstance(x, float): finite floats and the three special floats
IsFloat(x) == x.k \in {"num", "nan", "inf", "ninf"}

\* isinstance(x, (int, float))
IsNumber(x) == x.k \in {"num", "nan", "inf", "ninf"}

(* ------------------------------ Track A -------------------------------- *)
ZeroScores == [m \in MetricNames |-> Num(0)]

\* values a retrieval metric can take in the engine's record
EngineValues == {Num(0), Num(100), NaN, PosInf}

EngineRecords == [MetricNames -> EngineValues]

\* variant: only NaN is replaced
SanitizeRagasScores_NaNOnly(rec) ==
    [m \in DOMAIN rec |-> IF rec[m].k = "nan" THEN Num(0) ELSE rec[m]]

\* the loop that replaces NaN and Infinity by 0.0
SanitizeRagasScores(rec) ==
    [m \in DOMAIN rec |-> IF IsFloat(rec[m]) /\ IsNanOrInf(rec[m]) THEN Num(0) ELSE rec[m]]

\* variant: the empty-context check is missing
SkipEngine_NoEmptyCheck(available, count) == ~available

\* the two early returns of evaluate_cv_with_ragas: engine absent, or no context
SkipEngine(available, count) == ~available \/ count = 0

(* ------------------------------ Track B -------------------------------- *)
\* a persona response: the call it answers and the value under its 'score' key
ScoreValues == {Num(n) : n \in 0..MaxScore} \cup {NaN, PosInf, NonNumeric, Missing}

PersonaResponses(i) == {[call |-> i, score |-> s] : s \in ScoreValues}

NoResponse == [call |-> 0, score |-> NoValue]

\* e.get('score', 0)
GetScore(e) == IF e.score.k = "missing" THEN Num(0) ELSE e.score

\* one element of the scores list built from a response
ScoreOf(e) ==
    LET score == GetScore(e)
    IN IF IsNumber(score) /\ ~IsNanOrInf(score) THEN score.v ELSE 0

RECURSIVE SumSeq(_)
SumSeq(s) == IF s = <<>> THEN 0 ELSE Head(s) + SumSeq(Tail(s))

\* round(np.mean(scores), 2), in hundredths: nearest, ties to even
Round2Mean(total, n) ==
    LET q == (100 * total) \div n
        r == (100 * total) % n
    IN IF 2 * r < n THEN q
       ELSE IF 2 * r > n THEN q + 1
       ELSE IF q % 2 = 0 THEN q ELSE q + 1

\* variant: invalid scores are left out of the list instead of counted as 0
AverageScore_ValidOnly(evals) ==
    LET valid == SelectSeq(evals, LAMBDA e : IsNumber(GetScore(e)) /\ ~IsNanOrInf(GetScore(e)))
        scores == [i \in 1..Len(valid) |-> ScoreOf(valid[i])]
    IN IF Len(scores) > 0 THEN Num(Round2Mean(SumSeq(scores), Len(scores))) ELSE Num(0)

AverageScore(evals) ==
    LET scores == [i \in 1..Len(evals) |-> ScoreOf(evals[i])]
    IN IF Len(scores) > 0 THEN Num(Round2Mean(SumSeq(scores), Len(scores))) ELSE Num(0)

CommitteeAnalysis(evals) ==
    [individual_evaluations |-> evals, average_score |-> AverageScore(evals)]

NoAnalysis == [individual_evaluations |-> <<>>, average_score |-> NoValue]

NoRagas == [m \in MetricNames |-> NoValue]

NoResult == [ragas_scores |-> NoRagas, committee_evaluation |-> NoAnalysis]

Personas == 1..EVALUATION_PERSONAS

(* ------------------------- texts and documents ------------------------- *)
Requests == 1..MaxRequests

\* a CV text: whose it is, how many chunks the splitter cuts it into, whether
\* it holds something sanitize_user_input removes (markup, surrounding blanks),
\* whether it is empty or whitespace only, and how many characters are left of
\* it after sanitization
AcceptedTexts(r) ==
    [id : {r}, parts : 1..MaxChunks, dirty : BOOLEAN, blank : {FALSE}, length : {MinCVText}]

\* the empty text, a text like "<script></script>", a text one character too short
RejectedTexts(r) ==
    {[id |-> r, parts |-> 1, dirty |-> FALSE, blank |-> TRUE, length |-> 0],
     [id |-> r, parts |-> 1, dirty |-> TRUE, blank |-> FALSE, length |-> 0],
     [id |-> r, parts |-> 1, dirty |-> FALSE, blank |-> FALSE, length |-> MinCVText - 1]}

Texts(r) == AcceptedTexts(r) \cup RejectedTexts(r)

NoText == [id |-> 0, parts |-> 0, dirty |-> FALSE, blank |-> TRUE, length |-> 0]

\* a job description: whether it is empty or whitespace only, whether sanitization
\* changes it, and the characters left after sanitization.  The empty text, a text
\* like "<script></script>", a text one character too short, a text just long enough
JobDescriptions ==
    {[blank |-> TRUE, dirty |-> FALSE, length |-> 0],
     [blank |-> FALSE, dirty |-> TRUE, length |-> 0],
     [blank |-> FALSE, dirty |-> FALSE, length |-> MinJobDescription - 1],
     [blank |-> FALSE, dirty |-> FALSE, length |-> MinJobDescription]}

\* the texts of a request: a CV text of any kind beside a good job description,
\* a good or an empty CV text beside a bad one
RequestTexts(r) ==
    {p \in JobDescriptions \X Texts(r) :
        p[1].length < MinJobDescription =>
            p[2] \in {[id |-> r, parts |-> 1, dirty |-> FALSE, blank |-> TRUE, length |-> 0],
                      [id |-> r, parts |-> 1, dirty |-> FALSE, blank |-> FALSE,
                       length |-> MinCVText]}}

NoJobDescription == [blank |-> TRUE, dirty |-> FALSE, length |-> 0]

\* sanitize_user_input: what it removes is gone afterwards
sanitize_user_input(t) == [t EXCEPT !.dirty = FALSE]

\* raise HTTPException(status_code=..., detail=...)
HTTPException(status_code, detail) ==
    [raised |-> TRUE, status_code |-> status_code, detail |-> detail]

NoError == [raised |-> FALSE, status_code |-> 0, detail |-> ""]

\* what a call returns
Return(x) == [raised |-> FALSE, value |-> x]

\* validate_job_description: 400 for an empty or whitespace-only text and for a
\* sanitized text of fewer than 10 characters, else the sanitized text
validate_job_description(jd) ==
    IF jd.blank THEN HTTPException(400, "Job description is required")
    ELSE IF sanitize_user_input(jd).length < MinJobDescription
         THEN HTTPException(400, "Job description must be at least 10 characters long")
         ELSE Return(sanitize_user_input(jd))

\* variant: no minimum length
validate_cv_text_NoMinimum(t) ==
    IF t.blank THEN HTTPException(400, "CV text is required")
    ELSE Return(sanitize_user_input(t))

\* validate_cv_text: 400 for an empty or whitespace-only text and for a
\* sanitized text of fewer than 50 characters, else the sanitized text
validate_cv_text(t) ==
    IF t.blank THEN HTTPException(400, "CV text is required")
    ELSE IF sanitize_user_input(t).length < MinCVText
         THEN HTTPException(400, "CV text must be at least 50 characters long")
         ELSE Return(sanitize_user_input(t))

\* a string is modelled by the pieces of text it is made of and the number of
\* "\n\n" separators inserted between them
EmptyString == [pieces |-> {}, separators |-> 0]

\* the pieces of a text: one per chunk the splitter cuts it into
Pieces(t) == {[text |-> t.id, part |-> i, dirty |-> t.dirty] : i \in 1..t.parts}

\* a text as a string
StringOf(t) == [pieces |-> Pieces(t), separators |-> 0]

\* create_documents: one document per chunk of the text
create_documents(r, t) == {[req |-> r, page_content |-> p] : p \in Pieces(t)}

\* "\n\n".join([doc.page_content for doc in retrieved_docs])
JoinContext(ds) ==
    [pieces |-> {d.page_content : d \in ds},
     separators |-> IF ds = {} THEN 0 ELSE Cardinality(ds) - 1]

Min(a, b) == IF a < b THEN a ELSE b

\* the retriever returns the k most similar documents, fewer if the store holds fewer
RetrievalResults(store, k) ==
    {ds \in SUBSET store : Cardinality(ds) = Min(k, Cardinality(store))}

\* clear_vectorstore deletes every id of the Chroma collection; for Pinecone it only logs
ClearedStore(store, mock) == IF mock THEN {} ELSE store

\* variant: the handler yields between its vector store calls
EventLoopFree_Yielding(r) == TRUE

\* tailor_cv is a coroutine with no await before the evaluation: within one process
\* (the in-memory store) no other request runs in between; requests against the
\* external store may be served by different processes
EventLoopFree(r) == MOCK_PINECONE => running \in {0, r}

\* no request has arrived
RequestsIdle ==
    /\ running = 0
    /\ pc = [r \in Requests |-> "idle"]
    /\ user_cv_text = [r \in Requests |-> NoText]
    /\ job_description = [r \in Requests |-> NoJobDescription]
    /\ http_error = [r \in Requests |-> NoError]
    /\ docs = [r \in Requests |-> {}]
    /\ retrieved = [r \in Requests |-> {}]
    /\ generator_input = [r \in Requests |-> EmptyString]

TailorIdle ==
    /\ MOCK_PINECONE = TRUE
    /\ OPENAI_API_KEY = TRUE
    /\ vs_calls = <<>>
    /\ index = {}
    /\ running = 0
    /\ pc = [r \in Requests |-> "idle"]
    /\ user_cv_text = [r \in Requests |-> NoText]
    /\ job_description = [r \in Requests |-> NoJobDescription]
    /\ http_error = [r \in Requests |-> NoError]
    /\ docs = [r \in Requests |-> {}]
    /\ retrieved = [r \in Requests |-> {}]
    /\ generator_input = [r \in Requests |-> EmptyString]

(* ------------------------------- dates --------------------------------- *)
\* Optional values: Python None, an int, a bool
None == [k |-> "none", v |-> 0]

Bool(b) == [k |-> "bool", v |-> IF b THEN 1 ELSE 0]

\* Python truthiness of an optional int or bool: None, 0 and False are falsy
Truthy(x) == x.k \in {"num", "bool"} /\ x.v # 0

\* A string is the sequence of its tokens.  A token is a maximal run of word
\* characters (\w: a run of decimal digits, kind "digits", or a run holding a
\* letter, kind "word", kept as its lower-case text and its letter case), a
\* blank (\s), or a punctuation character.
Word(text, case) == [kind |-> "word", text |-> text, case |-> case, ds |-> <<>>]

Digits(ds) == [kind |-> "digits", text |-> "", case |-> "", ds |-> ds]

Blank == [kind |-> "space", text |-> " ", case |-> "", ds |-> <<>>]

Punct(c) == [kind |-> "punct", text |-> c, case |-> "", ds |-> <<>>]

\* str.lower()
Lower(t) == IF t.kind = "word" THEN [t EXCEPT !.case = "lower"] ELSE t

\* int(): the value of a run of decimal digits
RECURSIVE IntOf(_)
IntOf(ds) ==
    IF ds = <<>> THEN 0
    ELSE 10 * IntOf(SubSeq(ds, 1, Len(ds) - 1)) + ds[Len(ds)]

\* str() of a non-negative int: its decimal digits, without padding
RECURSIVE DigitsOf(_)
DigitsOf(n) == IF n < 10 THEN <<n>> ELSE Append(DigitsOf(n \div 10), n % 10)

\* the table of _month_name_to_number
month_names_lower ==
    <<"jan", "feb", "mar", "apr", "may", "jun", "jul", "aug", "sep", "oct", "nov", "dec">>

\* the table of format_date
month_names == [i \in 1..12 |-> Word(month_names_lower[i], "title")]

DateValue(year, month, day, isPresent) ==
    [year |-> year, month |-> month, day |-> day, isPresent |-> isPresent]

\* parse_date_string returned None
NullDate == DateValue(None, None, None, None)

\* variant: the name is looked up without lower()
_month_name_to_number_CaseSensitive(month_name) ==
    IF \E i \in 1..12 : Word(month_names_lower[i], "lower") = month_name
    THEN Num(CHOOSE i \in 1..12 : Word(month_names_lower[i], "lower") = month_name)
    ELSE None

\* month_names.index(month_name.lower()) + 1, None on ValueError
_month_name_to_number(month_name) ==
    IF \E i \in 1..12 : Word(month_names_lower[i], "lower") = Lower(month_name)
    THEN Num(CHOOSE i \in 1..12 : Word(month_names_lower[i], "lower") = Lower(month_name))
    ELSE None

\* \d{n}
IsDigitRun(t, lo, hi) == t.kind = "digits" /\ Len(t.ds) >= lo /\ Len(t.ds) <= hi

\* \w{3}
IsWord3(t) == \/ t.kind = "word" /\ Len(t.text) = 3
              \/ t.kind = "digits" /\ Len(t.ds) = 3

\* \s+ matches a run of blanks of any length: runs are reduced to one blank
RECURSIVE Squeeze(_)
Squeeze(s) ==
    IF Len(s) < 2 THEN s
    ELSE IF s[1] = Blank /\ s[2] = Blank THEN Squeeze(Tail(s))
    ELSE <<s[1]>> \o Squeeze(Tail(s))

\* ^(\d{4})$
MatchYear(s) == Len(s) = 1 /\ IsDigitRun(s[1], 4, 4)

\* ^(\w{3})\s+(\d{4})$
MatchMonthYear(s) ==
    LET q == Squeeze(s)
    IN Len(q) = 3 /\ IsWord3(q[1]) /\ q[2] = Blank /\ IsDigitRun(q[3], 4, 4)

\* ^(\d{1,2})\s+(\w{3})\s+(\d{4})$
MatchDayMonthYear(s) ==
    LET q == Squeeze(s)
    IN /\ Len(q) = 5
       /\ IsDigitRun(q[1], 1, 2) /\ q[2] = Blank /\ IsWord3(q[3]) /\ q[4] = Blank
       /\ IsDigitRun(q[5], 4, 4)

\* ^(\d{1,2})/(\d{1,2})/(\d{4})$
MatchSlashes(s) ==
    /\ Len(s) = 5
    /\ IsDigitRun(s[1], 1, 2) /\ s[2] = Punct("/") /\ IsDigitRun(s[3], 1, 2)
    /\ s[4] = Punct("/") /\ IsDigitRun(s[5], 4, 4)

\* ^(\d{4})-(\d{1,2})-(\d{1,2})$
MatchDashes(s) ==
    /\ Len(s) = 5
    /\ IsDigitRun(s[1], 4, 4) /\ s[2] = Punct("-") /\ IsDigitRun(s[3], 1, 2)
    /\ s[4] = Punct("-") /\ IsDigitRun(s[5], 1, 2)

\* variant: only the lower-case spelling is recognised
IsPresentString_CaseSensitive(s) ==
    s = <<>> \/ (Len(s) = 1 /\ s[1] \in {Word("present", "lower"), Word("current", "lower")})

\* not date_string or date_string.lower() in ['present', 'current']
IsPresentString(s) ==
    s = <<>> \/ (Len(s) = 1 /\ Lower(s[1]) \in {Word("present", "lower"), Word("current", "lower")})

\* parse_date_string: the first pattern that matches builds the value; DateValue
\* has no validator, so no parser raises and no pattern falls through
parse_date_string(s, now) ==
    IF IsPresentString(s) THEN DateValue(Num(now), None, None, Bool(TRUE))
    ELSE IF MatchYear(s) THEN DateValue(Num(IntOf(s[1].ds)), None, None, None)
    ELSE IF MatchMonthYear(s)
         THEN LET q == Squeeze(s)
              IN DateValue(Num(IntOf(q[3].ds)), _month_name_to_number(q[1]), None, None)
    ELSE IF MatchDayMonthYear(s)
         THEN LET q == Squeeze(s)
              IN DateValue(Num(IntOf(q[5].ds)), _month_name_to_number(q[3]),
                           Num(IntOf(q[1].ds)), None)
    ELSE IF MatchSlashes(s)
         THEN DateValue(Num(IntOf(s[5].ds)), Num(IntOf(s[1].ds)), Num(IntOf(s[3].ds)), None)
    ELSE IF MatchDashes(s)
         THEN DateValue(Num(IntOf(s[1].ds)), Num(IntOf(s[3].ds)), Num(IntOf(s[5].ds)), None)
    ELSE NullDate

\* the outcome of a call that returns a string or raises
Returned(s) == [raised |-> FALSE, text |-> s]

Raised == [raised |-> TRUE, text |-> <<>>]

\* variant: the table is indexed with month instead of month - 1
MonthName_OffByOne(month) ==
    IF month >= 0 /\ month < 12 THEN Returned(<<month_names[month + 1]>>)
    ELSE IF month < 0 /\ month >= -12 THEN Returned(<<month_names[12 + month + 1]>>)
    ELSE Raised

\* month_names[month - 1]: a negative index counts from the end, any other
\* index outside the table raises IndexError
MonthName(month) ==
    LET i == month - 1
    IN IF i >= 0 /\ i < 12 THEN Returned(<<month_names[i + 1]>>)
       ELSE IF i < 0 /\ i >= -12 THEN Returned(<<month_names[12 + i + 1]>>)
       ELSE Raised

format_date(v) ==
    IF Truthy(v.isPresent) THEN Returned(<<Word("present", "title")>>)
    ELSE IF Truthy(v.day) /\ Truthy(v.month)
         THEN IF MonthName(v.month.v).raised THEN Raised
              ELSE Returned(<<Digits(DigitsOf(v.day.v)), Blank>> \o MonthName(v.month.v).text
                            \o <<Blank, Digits(DigitsOf(v.year.v))>>)
    ELSE IF Truthy(v.month)
         THEN IF MonthName(v.month.v).raised THEN Raised
              ELSE Returned(MonthName(v.month.v).text \o <<Blank, Digits(DigitsOf(v.year.v))>>)
    ELSE Returned(<<Digits(DigitsOf(v.year.v))>>)

\* the word-character runs the date strings are built from
RunTokens ==
    {Digits(<<2, 0, 2, 3>>), Digits(<<0, 9, 9, 9>>), Digits(<<0, 1>>), Digits(<<4, 5>>),
     Digits(<<0>>), Digits(<<1, 2, 3>>),
     Word("jan", "title"), Word("dec", "upper"), Word("foo", "title"), Word("sept", "title"),
     Word("present", "title"), Word("current", "upper")}

SeparatorTokens == {Blank, Punct("/"), Punct("-")}

\* two runs of word characters are never adjacent: they would be one run
CanFollow(s, t) ==
    s = <<>> \/ s[Len(s)].kind \notin {"word", "digits"} \/ t.kind \notin {"word", "digits"}

\* the strings of at most n tokens
RECURSIVE StringsUpTo(_)
StringsUpTo(n) ==
    IF n = 0 THEN {<<>>}
    ELSE LET shorter == StringsUpTo(n - 1)
             longest == {s \in shorter : Len(s) = n - 1}
         IN shorter \cup {Append(p[1], p[2]) :
                             p \in {q \in longest \X (RunTokens \cup SeparatorTokens) :
                                       CanFollow(q[1], q[2])}}

\* the strings of test_date_parsing in simple_date_test.py and test_date_flow.py
ExampleStrings ==
    {<<Digits(<<2, 0, 2, 3>>)>>,
     <<Word("jan", "title"), Blank, Digits(<<2, 0, 2, 3>>)>>,
     <<Digits(<<1, 5>>), Blank, Word("jan", "title"), Blank, Digits(<<2, 0, 2, 3>>)>>,
     <<Word("present", "title")>>,
     <<Word("current", "title")>>,
     <<Word("sep", "title"), Blank, Digits(<<2, 0, 2, 0>>)>>,
     <<Digits(<<0, 1>>), Punct("/"), Digits(<<1, 5>>), Punct("/"), Digits(<<2, 0, 2, 3>>)>>,
     <<Digits(<<2, 0, 2, 3>>), Punct("-"), Digits(<<0, 1>>), Punct("-"), Digits(<<1, 5>>)>>,
     <<Word("sep", "title"), Blank, Digits(<<2, 0, 2, 0>>), Blank, Punct("-"), Blank,
       Word("may", "title"), Blank, Digits(<<2, 0, 2, 3>>)>>}

DateStrings == StringsUpTo(MaxTokens) \cup ExampleStrings

\* the values datetime.now().year can return
CurrentYears == {2026, 2027}

\* DateValue objects: the model declares no validator, any int is accepted
DateValues ==
    [year : {Num(2023), Num(999)},
     month : {None} \cup {Num(m) : m \in 0..13},
     day : {None, Num(0), Num(1), Num(31)},
     isPresent : {None, Bool(TRUE), Bool(FALSE)}]

NoOutcome == Returned(<<>>)

\* no date script is running
DateCallsIdle ==
    /\ date_string = <<>>
    /\ pcDate = "idle"
    /\ parsed = NullDate
    /\ date_value = NullDate
    /\ formatted = NoOutcome
    /\ reparsed = NullDate

DateIdle == DateCallsIdle /\ now_year = 0

(* -------------------------- the transformation ------------------------- *)
\* A raw JSON value: an absent key, null, a number, a string, a list of values,
\* or a mapping (a record of its keys with t = "map"; a key it lacks is Absent).
Absent == [t |-> "absent", s |-> <<>>, items |-> <<>>]

JNull == [t |-> "null", s |-> <<>>, items |-> <<>>]

JNum == [t |-> "num", s |-> <<>>, items |-> <<>>]

Str(s) == [t |-> "str", s |-> s, items |-> <<>>]

JList(items) == [t |-> "list", s |-> <<>>, items |-> items]

\* variant: a missing key gives no default
Get_NoDefault(m, key, default) == m[key]

\* dict.get(key, default)
Get(m, key, default) == IF m[key].t = "absent" THEN default ELSE m[key]

PersonalFields == {"name", "email", "phone", "location", "website", "linkedin", "github"}

SkillsFields == {"technical", "soft", "languages"}

\* the outcome of a call that returns a value or raises
Ok(x) == [raised |-> FALSE, value |-> x]

Failed == [raised |-> TRUE, value |-> <<>>]

\* pydantic field types: str, Optional[str], List[str]
ValidStr(x) == x.t = "str"

ValidOptionalStr(x) == x.t \in {"str", "null"}

ValidStrList(x) == x.t = "list" /\ \A i \in 1..Len(x.items) : x.items[i].t = "str"

\* variant: without the early return for a falsy argument
_parse_date_NoEmptyCheck(raw, now) ==
    IF raw.t = "str" THEN parse_date_string(raw.s, now) ELSE NullDate

\* variant: a string that cannot be parsed counts as a Present date
_parse_date_PresentFallback(raw, now) ==
    IF raw.t = "str" /\ raw.s # <<>>
    THEN IF parse_date_string(raw.s, now) = NullDate
         THEN DateValue(Num(now), None, None, Bool(TRUE))
         ELSE parse_date_string(raw.s, now)
    ELSE NullDate

\* _parse_date: None for a falsy argument; parse_date_string raises on a
\* non-string (no .lower()), which the except branch turns into None
_parse_date(raw, now) ==
    IF raw.t = "str" /\ raw.s # <<>>
    THEN parse_date_string(raw.s, now)
    ELSE NullDate

\* PersonalInfo(name=personal_data.get("name", ""), ...)
PersonalInfo(personal_data) ==
    IF personal_data.t # "map" THEN Failed
    ELSE LET fields == [f \in PersonalFields |-> Get(personal_data, f, Str(<<>>))]
         IN IF \A f \in PersonalFields : ValidStr(fields[f]) THEN Ok(fields) ELSE Failed

\* Experience(company=exp_data.get("company", ""), ...)
Experience(exp_data, now) ==
    IF exp_data.t # "map" THEN Failed
    ELSE LET exp == [company |-> Get(exp_data, "company", Str(<<>>)),
                     role |-> Get(exp_data, "role", Str(<<>>)),
                     startDate |-> Get(exp_data, "startDate", Str(<<>>)),
                     endDate |-> Get(exp_data, "endDate", Str(<<>>)),
                     location |-> Get(exp_data, "location", Str(<<>>)),
                     description |-> Get(exp_data, "description", Str(<<>>)),
                     achievements |-> Get(exp_data, "achievements", JList(<<>>)),
                     startDateValue |-> _parse_date(Get(exp_data, "startDate", Str(<<>>)), now),
                     endDateValue |-> _parse_date(Get(exp_data, "endDate", Str(<<>>)), now)]
         IN IF /\ ValidStr(exp.company) /\ ValidStr(exp.role) /\ ValidStr(exp.startDate)
               /\ ValidStr(exp.endDate) /\ ValidStr(exp.location) /\ ValidStr(exp.description)
               /\ ValidStrList(exp.achievements)
            THEN Ok(exp) ELSE Failed

\* Education(institution=edu_data.get("institution", ""), ...)
Education(edu_data, now) ==
    IF edu_data.t # "map" THEN Failed
    ELSE LET edu == [institution |-> Get(edu_data, "institution", Str(<<>>)),
                     degree |-> Get(edu_data, "degree", Str(<<>>)),
                     field |-> Get(edu_data, "field", Str(<<>>)),
                     startDate |-> Get(edu_data, "startDate", Str(<<>>)),
                     endDate |-> Get(edu_data, "endDate", Str(<<>>)),
                     gpa |-> Get(edu_data, "gpa", Str(<<>>)),
                     startDateValue |-> _parse_date(Get(edu_data, "startDate", Str(<<>>)), now),
                     endDateValue |-> _parse_date(Get(edu_data, "endDate", Str(<<>>)), now)]
         IN IF /\ ValidStr(edu.institution) /\ ValidStr(edu.degree) /\ ValidStr(edu.field)
               /\ ValidStr(edu.startDate) /\ ValidStr(edu.endDate) /\ ValidStr(edu.gpa)
            THEN Ok(edu) ELSE Failed

\* Project(name=proj_data.get("name", ""), ..., startDate=proj_data.get("startDate"), ...)
Project(proj_data, now) ==
    IF proj_data.t # "map" THEN Failed
    ELSE LET proj == [name |-> Get(proj_data, "name", Str(<<>>)),
                      description |-> Get(proj_data, "description", Str(<<>>)),
                      tech_stack |-> Get(proj_data, "tech_stack", JList(<<>>)),
                      link |-> Get(proj_data, "link", Str(<<>>)),
                      startDate |-> Get(proj_data, "startDate", JNull),
                      endDate |-> Get(proj_data, "endDate", JNull),
                      startDateValue |-> _parse_date(Get(proj_data, "startDate", JNull), now),
                      endDateValue |-> _parse_date(Get(proj_data, "endDate", JNull), now)]
         IN IF /\ ValidStr(proj.name) /\ ValidStr(proj.description)
               /\ ValidStrList(proj.tech_stack) /\ ValidStr(proj.link)
               /\ ValidOptionalStr(proj.startDate) /\ ValidOptionalStr(proj.endDate)
            THEN Ok(proj) ELSE Failed

\* LicenseCertification(name=cert_data.get("name", ""), ..., expiry=cert_data.get("expiry"), ...)
LicenseCertification(cert_data, now) ==
    IF cert_data.t # "map" THEN Failed
    ELSE LET cert == [name |-> Get(cert_data, "name", Str(<<>>)),
                      issuer |-> Get(cert_data, "issuer", Str(<<>>)),
                      date |-> Get(cert_data, "date", Str(<<>>)),
                      expiry |-> Get(cert_data, "expiry", JNull),
                      dateValue |-> _parse_date(Get(cert_data, "date", Str(<<>>)), now),
                      expiryValue |-> _parse_date(Get(cert_data, "expiry", JNull), now)]
         IN IF /\ ValidStr(cert.name) /\ ValidStr(cert.issuer) /\ ValidStr(cert.date)
               /\ ValidOptionalStr(cert.expiry)
            THEN Ok(cert) ELSE Failed

\* Skills(technical=skills_data.get("technical", []), ...)
Skills(skills_data) ==
    IF skills_data.t # "map" THEN Failed
    ELSE LET fields == [f \in SkillsFields |-> Get(skills_data, f, JList(<<>>))]
         IN IF \A f \in SkillsFields : ValidStrList(fields[f]) THEN Ok(fields) ELSE Failed

\* for x_data in section: the section is iterated; a list is walked entry by
\* entry, the empty string yields nothing, anything else raises (null and
\* numbers are not iterable, the characters of a string have no .get)
Entries(section) ==
    IF section.t = "list" THEN Ok(section.items)
    ELSE IF section = Str(<<>>) THEN Ok(<<>>)
    ELSE Failed

\* the result of a loop that builds one model per entry
Collect(built) ==
    IF \E i \in 1..Len(built) : built[i].raised THEN Failed
    ELSE Ok([i \in 1..Len(built) |-> built[i].value])

\* {}: a mapping without keys
EmptyPersonal ==
    [t |-> "map", name |-> Absent, email |-> Absent, phone |-> Absent, location |-> Absent,
     website |-> Absent, linkedin |-> Absent, github |-> Absent]

EmptySkills == [t |-> "map", technical |-> Absent, soft |-> Absent, languages |-> Absent]

\* the {} that json.loads can return: no top-level key
EmptyMapping ==
    [personal |-> Absent, professional_summary |-> Absent, experience |-> Absent,
     education |-> Absent, projects |-> Absent, skills |-> Absent,
     licenses_certifications |-> Absent]

\* transform_ai_data_to_cv_data: any exception of the try block is re-raised
transform_ai_data_to_cv_data(ai, now) ==
    LET personal == PersonalInfo(Get(ai, "personal", EmptyPersonal))
        professional_summary == Get(ai, "professional_summary", Str(<<>>))
        experience_data == Entries(Get(ai, "experience", JList(<<>>)))
        experience ==
            IF experience_data.raised THEN Failed
            ELSE Collect([i \in 1..Len(experience_data.value) |->
                              Experience(experience_data.value[i], now)])
        education_data == Entries(Get(ai, "education", JList(<<>>)))
        education ==
            IF education_data.raised THEN Failed
            ELSE Collect([i \in 1..Len(education_data.value) |->
                              Education(education_data.value[i], now)])
        projects_data == Entries(Get(ai, "projects", JList(<<>>)))
        projects ==
            IF projects_data.raised THEN Failed
            ELSE Collect([i \in 1..Len(projects_data.value) |->
                              Project(projects_data.value[i], now)])
        skills == Skills(Get(ai, "skills", EmptySkills))
        certs_data == Entries(Get(ai, "licenses_certifications", JList(<<>>)))
        licenses_certifications ==
            IF certs_data.raised THEN Failed
            ELSE Collect([i \in 1..Len(certs_data.value) |->
                              LicenseCertification(certs_data.value[i], now)])
    IN IF \/ personal.raised \/ experience.raised \/ education.raised \/ projects.raised
          \/ skills.raised \/ licenses_certifications.raised
          \/ ~ValidStr(professional_summary)
       THEN Failed
       ELSE Ok([personal |-> personal.value,
                professional_summary |-> professional_summary,
                experience |-> experience.value,
                education |-> education.value,
                projects |-> projects.value,
                skills |-> skills.value,
                licenses_certifications |-> licenses_certifications.value])

(* raw mappings the model can return *)
SomeText == <<Word("acme", "title")>>

JanText == <<Word("jan", "title"), Blank, Digits(<<2, 0, 2, 3>>)>>

PresentText == <<Word("present", "title")>>

NotADate == <<Word("not", "lower"), Blank, Word("a", "lower"), Blank, Word("date", "lower")>>

\* values of a plain field, of a date field, of a list field
PlainValues == {Absent, JNull, JNum, Str(SomeText)}

DateFieldValues ==
    {Absent, JNull, JNum, Str(<<>>), Str(JanText), Str(PresentText), Str(NotADate)}

ListValues == {Absent, JNull, JList(<<>>), JList(<<Str(SomeText)>>)}

PersonalMappings ==
    [t : {"map"}, name : PlainValues, email : PlainValues, phone : PlainValues,
     location : PlainValues, website : PlainValues, linkedin : PlainValues,
     github : PlainValues]

ExperienceEntries ==
    [t : {"map"}, company : PlainValues, role : PlainValues, startDate : DateFieldValues,
     endDate : DateFieldValues, location : PlainValues, description : PlainValues,
     achievements : ListValues]

EducationEntries ==
    [t : {"map"}, institution : PlainValues, degree : PlainValues, field : PlainValues,
     startDate : DateFieldValues, endDate : DateFieldValues, gpa : PlainValues]

ProjectEntries ==
    [t : {"map"}, name : PlainValues, description : PlainValues, tech_stack : ListValues,
     link : PlainValues, startDate : DateFieldValues, endDate : DateFieldValues]

CertificationEntries ==
    [t : {"map"}, name : PlainValues, issuer : PlainValues, date : DateFieldValues,
     expiry : DateFieldValues]

SkillsMappings == [t : {"map"}, technical : ListValues, soft : ListValues, languages : ListValues]

\* a complete section, as in sample_ai_data of test_date_flow.py
StandardPersonal ==
    [t |-> "map", name |-> Str(SomeText), email |-> Str(SomeText), phone |-> Str(SomeText),
     location |-> Str(SomeText), website |-> Str(SomeText), linkedin |-> Str(SomeText),
     github |-> Str(SomeText)]

StandardExperience ==
    [t |-> "map", company |-> Str(SomeText), role |-> Str(SomeText),
     startDate |-> Str(JanText), endDate |-> Str(PresentText), location |-> Str(SomeText),
     description |-> Str(SomeText), achievements |-> JList(<<Str(SomeText)>>)]

StandardEducation ==
    [t |-> "map", institution |-> Str(SomeText), degree |-> Str(SomeText),
     field |-> Str(SomeText), startDate |-> Str(JanText), endDate |-> Str(JanText),
     gpa |-> Str(SomeText)]

StandardProject ==
    [t |-> "map", name |-> Str(SomeText), description |-> Str(SomeText),
     tech_stack |-> JList(<<Str(SomeText)>>), link |-> Str(SomeText),
     startDate |-> Str(JanText), endDate |-> Str(PresentText)]

StandardCertification ==
    [t |-> "map", name |-> Str(SomeText), issuer |-> Str(SomeText), date |-> Str(JanText),
     expiry |-> Str(JanText)]

StandardSkills ==
    [t |-> "map", technical |-> JList(<<Str(SomeText)>>), soft |-> JList(<<Str(SomeText)>>),
     languages |-> JList(<<>>)]

\* values of a list section: absent, not a sequence of mappings (null, a
\* string, a list holding a string), or up to MaxEntries complete entries
ListSectionValues(entry) ==
    {Absent, JNull, Str(SomeText), JList(<<Str(SomeText)>>)}
    \cup {JList([i \in 1..n |-> entry]) : n \in 0..MaxEntries}

\* mappings whose sections are absent, malformed, empty or complete
SectionMappings ==
    [personal : {Absent, JNull, EmptyPersonal, StandardPersonal},
     professional_summary : PlainValues,
     experience : ListSectionValues(StandardExperience),
     education : ListSectionValues(StandardEducation),
     projects : ListSectionValues(StandardProject),
     skills : {Absent, JNull, EmptySkills, StandardSkills},
     licenses_certifications : ListSectionValues(StandardCertification)]

\* mappings with one section, whose fields take every combination of values
IsFieldMapping(ai) ==
    \/ \E p \in PersonalMappings : ai = [EmptyMapping EXCEPT !.personal = p]
    \/ \E e \in ExperienceEntries : ai = [EmptyMapping EXCEPT !.experience = JList(<<e>>)]
    \/ \E e \in EducationEntries : ai = [EmptyMapping EXCEPT !.education = JList(<<e>>)]
    \/ \E e \in ProjectEntries : ai = [EmptyMapping EXCEPT !.projects = JList(<<e>>)]
    \/ \E k \in SkillsMappings : ai = [EmptyMapping EXCEPT !.skills = k]
    \/ \E e \in CertificationEntries :
          ai = [EmptyMapping EXCEPT !.licenses_certifications = JList(<<e>>)]

NoCVData == Ok(<<>>)

TransformIdle ==
    /\ ai_data = EmptyMapping
    /\ pcTransform = "idle"
    /\ cv_data = NoCVData

TryIdle ==
    /\ pcTry = "idle"
    /\ structured_content = <<>>
    /\ response = [status |-> 0, body |-> <<>>, detail |-> ""]
    /\ failure_cause = "none"
    /\ exc = [type |-> "", message |-> ""]

SanitizeIdle ==
    /\ input_text = <<>>
    /\ max_length = 0
    /\ pcSanitize = "idle"
    /\ sanitized = <<>>

ExtractIdle ==
    /\ content = <<>>
    /\ pcExtract = "idle"
    /\ extracted = [raised |-> FALSE, value |-> "none"]

TextIdle == SanitizeIdle /\ ExtractIdle

PureIdle == DateIdle /\ TransformIdle /\ TryIdle /\ TextIdle

(* --------------------------- character strings ------------------------ *)
\* A string of the sanitizer and of the reply post-processing is a sequence of
\* characters, so that slices, prefixes and regular expressions work on it as
\* they do in Python.
UpperLetters == <<"A", "B", "C", "D", "E", "F", "G", "H", "I", "J", "K", "L", "M", "N", "O", "P", "Q", "R", "S", "T", "U", "V", "W", "X", "Y", "Z">>

LowerLetters == <<"a", "b", "c", "d", "e", "f", "g", "h", "i", "j", "k", "l", "m", "n", "o", "p", "q", "r", "s", "t", "u", "v", "w", "x", "y", "z">>

\* str.lower() on one character, as re.IGNORECASE compares
LowerChar(c) ==
    IF \E i \in 1..Len(UpperLetters) : UpperLetters[i] = c
    THEN LowerLetters[CHOOSE i \in 1..Len(UpperLetters) : UpperLetters[i] = c]
    ELSE c

\* \s and \w on the characters used here
IsSpace(c) == c \in {" ", "\n"}

IsWordChar(c) == \E i \in 1..Len(LowerLetters) : LowerLetters[i] = LowerChar(c)

\* s[i:].lower().startswith(literal), literal in lower case
StartsWithAt(s, i, literal) ==
    /\ i + Len(literal) - 1 <= Len(s)
    /\ \A k \in 1..Len(literal) : LowerChar(s[i + k - 1]) = literal[k]

\* first position from i on where the literal starts, 0 if there is none
FirstLiteral(s, i, literal) ==
    IF \E j \in i..Len(s) : StartsWithAt(s, j, literal)
    THEN CHOOSE j \in i..Len(s) :
            /\ StartsWithAt(s, j, literal)
            /\ \A k \in i..(j - 1) : ~StartsWithAt(s, k, literal)
    ELSE 0

\* first position from i on that holds no word character (no blank), Len(s) + 1 if none
WordRunEnd(s, i) ==
    IF \E j \in i..Len(s) : ~IsWordChar(s[j])
    THEN CHOOSE j \in i..Len(s) : ~IsWordChar(s[j]) /\ \A k \in i..(j - 1) : IsWordChar(s[k])
    ELSE Len(s) + 1

SpaceRunEnd(s, i) ==
    IF \E j \in i..Len(s) : ~IsSpace(s[j])
    THEN CHOOSE j \in i..Len(s) : ~IsSpace(s[j]) /\ \A k \in i..(j - 1) : IsSpace(s[k])
    ELSE Len(s) + 1

ScriptOpen == <<"<", "s", "c", "r", "i", "p", "t">>

ScriptClose == <<"<", "/", "s", "c", "r", "i", "p", "t", ">">>

JavascriptScheme == <<"j", "a", "v", "a", "s", "c", "r", "i", "p", "t", ":">>

\* r'<script[^>]*>.*?</script>' with IGNORECASE | DOTALL matched at position i:
\* the position after the match, 0 without a match.  [^>]* ends at the first
\* '>', the lazy .*? at the first closing tag after it.
ScriptMatchEnd(s, i) ==
    IF ~StartsWithAt(s, i, ScriptOpen) THEN 0
    ELSE LET gt == FirstLiteral(s, i + Len(ScriptOpen), <<">">>)
         IN IF gt = 0 THEN 0
            ELSE LET close == FirstLiteral(s, gt + 1, ScriptClose)
                 IN IF close = 0 THEN 0 ELSE close + Len(ScriptClose)

\* r'javascript:' with IGNORECASE matched at position i
JavascriptMatchEnd(s, i) ==
    IF StartsWithAt(s, i, JavascriptScheme) THEN i + Len(JavascriptScheme) ELSE 0

\* r'on\w+\s*=' with IGNORECASE matched at position i: the greedy \w+ takes the
\* whole run of word characters, \s* the blanks after it, and '=' must follow
HandlerMatchEnd(s, i) ==
    IF ~StartsWithAt(s, i, <<"o", "n">>) THEN 0
    ELSE LET w == WordRunEnd(s, i + 2)
             e == SpaceRunEnd(s, w)
         IN IF w > i + 2 /\ e <= Len(s) /\ s[e] = "=" THEN e + 1 ELSE 0

MatchEnd(pattern, s, i) ==
    CASE pattern = "script" -> ScriptMatchEnd(s, i)
      [] pattern = "javascript" -> JavascriptMatchEnd(s, i)
      [] pattern = "handler" -> HandlerMatchEnd(s, i)

\* re.sub(pattern, '', s): the matches are found from left to right, each search
\* starting where the last match ended, in one pass over s
RECURSIVE Sub(_, _, _)
Sub(pattern, s, i) ==
    IF i > Len(s) THEN <<>>
    ELSE IF MatchEnd(pattern, s, i) # 0 THEN Sub(pattern, s, MatchEnd(pattern, s, i))
    ELSE <<s[i]>> \o Sub(pattern, s, i + 1)

\* re.search(pattern, s) is not None
Search(pattern, s) == \E i \in 1..Len(s) : MatchEnd(pattern, s, i) # 0

\* str.strip()
Strip(s) ==
    IF \A i \in 1..Len(s) : IsSpace(s[i]) THEN <<>>
    ELSE LET first == CHOOSE i \in 1..Len(s) : ~IsSpace(s[i]) /\ \A k \in 1..(i - 1) : IsSpace(s[k])
             last == CHOOSE i \in 1..Len(s) :
                        ~IsSpace(s[i]) /\ \A k \in (i + 1)..Len(s) : IsSpace(s[k])
         IN SubSeq(s, first, last)

\* text[:n]
Prefix(s, n) == SubSeq(s, 1, IF n < Len(s) THEN n ELSE Len(s))

\* sanitize_user_input(text, max_length) on a character string: the text is cut
\* to max_length, the three patterns are removed one after the other, one pass
\* each, and the result is stripped
SanitizeText(s, max) ==
    IF s = <<>> THEN <<>>
    ELSE Strip(Sub("handler", Sub("javascript", Sub("script", Prefix(s, max), 1), 1), 1))

\* the pieces the input texts are made of
Fragments ==
    {<<"j", "a", "v", "a">>,
     <<"J", "a", "v", "a", "S", "c", "r", "i", "p", "t", ":">>,
     <<"s", "c", "r", "i", "p", "t", ":">>,
     <<"<", "s", "c", "r">>,
     <<"i", "p", "t", ">">>,
     <<"<", "/", "s", "c", "r", "i", "p", "t", ">">>,
     <<"o", "n">>,
     <<"c", "l", "i", "c", "k", " ", "=">>,
     <<" ", "a">>}

RECURSIVE TextsOf(_)
TextsOf(n) ==
    IF n = 0 THEN {<<>>}
    ELSE LET shorter == TextsOf(n - 1)
         IN shorter \cup {p[1] \o p[2] : p \in shorter \X Fragments}

InputTexts == TextsOf(MaxFragments)

\* max_length: a limit that cuts most of the texts, and the default
MaxLengths == {12, 10000}

\* str.startswith and str.endswith, which compare case-sensitively
StartsWith(s, prefix) ==
    Len(prefix) <= Len(s) /\ SubSeq(s, 1, Len(prefix)) = prefix

EndsWith(s, suffix) ==
    Len(suffix) <= Len(s) /\ SubSeq(s, Len(s) - Len(suffix) + 1, Len(s)) = suffix

\* the grave accent (U+0060), which a string of this module cannot hold
Backtick == "grave"

Fence == <<Backtick, Backtick, Backtick>>

JsonFence == Fence \o <<"j", "s", "o", "n">>

\* json.loads on the replies used here: blanks around the value are skipped,
\* and the only JSON value the replies can hold is an object without members
IsJsonObject(s) ==
    LET v == Strip(s)
    IN /\ Len(v) >= 2
       /\ v[1] = "{"
       /\ v[Len(v)] = "}"
       /\ \A i \in 2..(Len(v) - 1) : IsSpace(v[i])

json_loads(s) ==
    IF IsJsonObject(s) THEN [raised |-> FALSE, value |-> "dict"]
    ELSE [raised |-> TRUE, value |-> "JSONDecodeError"]

\* the reply after "Remove any markdown formatting if present": the reply is
\* stripped, a leading fence with the tag json is cut off (content[7:]), then a
\* trailing fence (content[:-3])
RemoveMarkdown(reply) ==
    LET stripped == Strip(reply)
        headless == IF StartsWith(stripped, JsonFence)
                    THEN SubSeq(stripped, Len(JsonFence) + 1, Len(stripped))
                    ELSE stripped
    IN IF EndsWith(headless, Fence)
       THEN SubSeq(headless, 1, Len(headless) - Len(Fence))
       ELSE headless

\* the end of extract_structured_cv_data: the parsed reply, or the exception
\* the except clause raises in place of the one of the parser
ParseReply(reply) ==
    LET loaded == json_loads(RemoveMarkdown(reply))
    IN IF loaded.raised THEN [raised |-> TRUE, value |-> "Failed to extract CV data"]
       ELSE loaded

\* the pieces the replies of the generation model are made of
ReplyFragments ==
    {Fence,
     <<"j", "s", "o", "n">>,
     <<"\n">>,
     <<"{", "}">>,
     <<" ">>,
     <<"x">>}

RECURSIVE RepliesOf(_)
RepliesOf(n) ==
    IF n = 0 THEN {<<>>}
    ELSE LET shorter == RepliesOf(n - 1)
         IN shorter \cup {p[1] \o p[2] : p \in shorter \X ReplyFragments}

Replies == RepliesOf(MaxFragments)

(* ------------------------------ SpecEval ------------------------------- *)
InitEval ==
    /\ TailorIdle
    /\ PureIdle
    /\ RAGAS_AVAILABLE \in BOOLEAN
    /\ EVALUATION_PERSONAS \in 0..NumPersonas
    /\ retrieved_docs \in 0..MaxDocs
    /\ pcComplete = "start"
    /\ pcRagas = "none"
    /\ pcCommittee = "none"
    /\ engineInvoked = FALSE
    /\ ragas_result = NoRagas
    /\ ragasOutcome = "none"
    /\ ragas_scores = NoRagas
    /\ personaTask = [i \in 1..NumPersonas |-> "none"]
    /\ committee_evaluations = [i \in 1..NumPersonas |-> NoResponse]
    /\ overtaken = FALSE
    /\ committee_analysis = NoAnalysis
    /\ evaluation_results = NoResult

\* evaluate_cv_complete creates both coroutines and awaits asyncio.gather
evaluate_cv_complete_gather ==
    /\ pcComplete = "start"
    /\ pcComplete' = "await"
    /\ pcRagas' = "start"
    /\ pcCommittee' = "start"
    /\ UNCHANGED <<evalConfig, engineInvoked, ragas_result, ragasOutcome, ragas_scores,
                   personaTask, committee_evaluations, overtaken, committee_analysis,
                   evaluation_results>>

\* evaluate_cv_with_ragas up to its first suspension: one of the two early
\* returns, or the dataset is built and the engine is started in a thread
evaluate_cv_with_ragas_start ==
    /\ pcRagas = "start"
    /\ IF SkipEngine(RAGAS_AVAILABLE, retrieved_docs)
       THEN /\ pcRagas' = "returned"
            /\ ragasOutcome' = IF ~RAGAS_AVAILABLE THEN "unavailable" ELSE "empty"
            /\ ragas_scores' = ZeroScores
            /\ UNCHANGED engineInvoked
       ELSE /\ pcRagas' = "engine"
            /\ engineInvoked' = TRUE
            /\ UNCHANGED <<ragasOutcome, ragas_scores>>
    /\ UNCHANGED <<evalConfig, pcComplete, ragas_result, committeeVars, evaluation_results>>

\* Dataset.from_dict raises inside the try block: the except branch returns zeros
evaluate_cv_with_ragas_dataset_error ==
    /\ pcRagas = "start"
    /\ ~SkipEngine(RAGAS_AVAILABLE, retrieved_docs)
    /\ pcRagas' = "returned"
    /\ ragasOutcome' = "error"
    /\ ragas_scores' = ZeroScores
    /\ UNCHANGED <<evalConfig, pcComplete, engineInvoked, ragas_result, committeeVars,
                   evaluation_results>>

\* the engine returns a record: NaN and Infinity are replaced, the record is returned
evaluate_cv_with_ragas_engine_return ==
    /\ pcRagas = "engine"
    /\ \E rec \in EngineRecords :
          /\ ragas_result' = rec
          /\ ragas_scores' = SanitizeRagasScores(rec)
    /\ pcRagas' = "returned"
    /\ ragasOutcome' = "scores"
    /\ UNCHANGED <<evalConfig, pcComplete, engineInvoked, committeeVars, evaluation_results>>

\* the engine (or the conversion of its result) raises: the except branch returns zeros
evaluate_cv_with_ragas_engine_error ==
    /\ pcRagas = "engine"
    /\ pcRagas' = "returned"
    /\ ragasOutcome' = "error"
    /\ ragas_scores' = ZeroScores
    /\ UNCHANGED <<evalConfig, pcComplete, engineInvoked, ragas_result, committeeVars,
                   evaluation_results>>

\* evaluate_cv_with_committee builds one coroutine per persona and awaits gather
evaluate_cv_with_committee_dispatch ==
    /\ pcCommittee = "start"
    /\ pcCommittee' = "await"
    /\ personaTask' = [i \in 1..NumPersonas |-> IF i \in Personas THEN "pending" ELSE "none"]
    /\ UNCHANGED <<evalConfig, pcComplete, ragasVars, committee_evaluations, overtaken,
                   committee_analysis, evaluation_results>>

\* a persona call completes: json.loads of the model's reply succeeded
evaluate_with_persona_return(i) ==
    /\ personaTask[i] = "pending"
    /\ \E e \in PersonaResponses(i) :
          committee_evaluations' = [committee_evaluations EXCEPT ![i] = e]
    /\ personaTask' = [personaTask EXCEPT ![i] = "done"]
    /\ overtaken' = (overtaken \/ \E j \in 1..(i - 1) : personaTask[j] = "pending")
    /\ UNCHANGED <<evalConfig, pcComplete, ragasVars, pcCommittee, committee_analysis,
                   evaluation_results>>

\* a persona call raises: the provider call failed or the reply is not JSON
evaluate_with_persona_raise(i) ==
    /\ personaTask[i] = "pending"
    /\ personaTask' = [personaTask EXCEPT ![i] = "failed"]
    /\ UNCHANGED <<evalConfig, pcComplete, ragasVars, pcCommittee, committee_evaluations, overtaken,
                   committee_analysis, evaluation_results>>

\* variant: return as soon as one call has returned
GatherReady_FirstCompleted(tasks, n) == n = 0 \/ \E i \in 1..n : tasks[i] = "done"

\* asyncio.gather(*evaluation_tasks) has a result list: every call returned
GatherReady(tasks, n) == \A i \in 1..n : tasks[i] = "done"

\* variant: the results listed from the last awaitable to the first
GatherResults_Reversed(results, n) == [i \in 1..n |-> results[n + 1 - i]]

\* the list asyncio.gather returns: the result of each awaitable, in the order
\* the awaitables were passed (the order of settings.EVALUATION_PERSONAS)
GatherResults(results, n) == [i \in 1..n |-> results[i]]

\* gather hands back the responses in dispatch order; the scores are sanitized and averaged
evaluate_cv_with_committee_return ==
    /\ pcCommittee = "await"
    /\ GatherReady(personaTask, EVALUATION_PERSONAS)
    /\ committee_analysis' =
          CommitteeAnalysis(GatherResults(committee_evaluations, EVALUATION_PERSONAS))
    /\ pcCommittee' = "returned"
    /\ UNCHANGED <<evalConfig, pcComplete, ragasVars, personaTask, committee_evaluations, overtaken,
                   evaluation_results>>

\* a persona call raised: gather re-raises it and evaluate_cv_with_committee has no handler
evaluate_cv_with_committee_raise ==
    /\ pcCommittee = "await"
    /\ \E i \in Personas : personaTask[i] = "failed"
    /\ pcCommittee' = "raised"
    /\ UNCHANGED <<evalConfig, pcComplete, ragasVars, personaTask, committee_evaluations, overtaken,
                   committee_analysis, evaluation_results>>

\* variant: the result is assembled as soon as one track has returned
TracksJoined_FirstCompleted(ragas, committee) == ragas = "returned" \/ committee = "returned"

\* asyncio.gather(ragas_task, committee_task) has a result: both tracks returned
TracksJoined(ragas, committee) == ragas = "returned" /\ committee = "returned"

\* gather of the two tracks: both returned, the result is assembled
evaluate_cv_complete_return ==
    /\ pcComplete = "await"
    /\ TracksJoined(pcRagas, pcCommittee)
    /\ evaluation_results' =
          [ragas_scores |-> ragas_scores, committee_evaluation |-> committee_analysis]
    /\ pcComplete' = "returned"
    /\ UNCHANGED <<evalConfig, ragasVars, committeeVars>>

\* gather of the two tracks: the committee track raised, the exception propagates
evaluate_cv_complete_raise ==
    /\ pcComplete = "await"
    /\ pcCommittee = "raised"
    /\ pcComplete' = "raised"
    /\ UNCHANGED <<evalConfig, ragasVars, committeeVars, evaluation_results>>

NextEval ==
    \/ evaluate_cv_complete_gather
    \/ evaluate_cv_with_ragas_start
    \/ evaluate_cv_with_ragas_dataset_error
    \/ evaluate_cv_with_ragas_engine_return
    \/ evaluate_cv_with_ragas_engine_error
    \/ evaluate_cv_with_committee_dispatch
    \/ \E i \in 1..NumPersonas : evaluate_with_persona_return(i)
    \/ \E i \in 1..NumPersonas : evaluate_with_persona_raise(i)
    \/ evaluate_cv_with_committee_return
    \/ evaluate_cv_with_committee_raise
    \/ evaluate_cv_complete_return
    \/ evaluate_cv_complete_raise

SpecEval == InitEval /\ [][NextEval]_vars

\* The event loop runs every coroutine that is ready: the steps of the three
\* coroutines are weakly fair.  The completions of the engine thread and of the
\* persona calls depend on the providers and have no fairness: a stuck call
\* blocks the evaluation for ever.
FairEval ==
    /\ WF_vars(evaluate_cv_complete_gather)
    /\ WF_vars(evaluate_cv_with_ragas_start)
    /\ WF_vars(evaluate_cv_with_committee_dispatch)
    /\ WF_vars(evaluate_cv_with_committee_return)
    /\ WF_vars(evaluate_cv_with_committee_raise)
    /\ WF_vars(evaluate_cv_complete_return)
    /\ WF_vars(evaluate_cv_complete_raise)

\* The two tracks share no variable.  To keep the state graph small enough for
\* the check of a liveness property, the engine runs in the configurations with
\* fewer than NumPersonas personas, and the full committee runs beside the early
\* returns of the metrics track.
InitEvalFair ==
    /\ InitEval
    /\ EVALUATION_PERSONAS = NumPersonas => SkipEngine(RAGAS_AVAILABLE, retrieved_docs)

SpecEvalFair == InitEvalFair /\ [][NextEval]_vars /\ FairEval

(* ----------------------------- SpecTailor ------------------------------ *)
EvalIdle ==
    /\ RAGAS_AVAILABLE = FALSE
    /\ EVALUATION_PERSONAS = NumPersonas
    /\ retrieved_docs = 0
    /\ pcComplete = "start"
    /\ pcRagas = "none"
    /\ pcCommittee = "none"
    /\ engineInvoked = FALSE
    /\ ragas_result = NoRagas
    /\ ragasOutcome = "none"
    /\ ragas_scores = NoRagas
    /\ personaTask = [i \in 1..NumPersonas |-> "none"]
    /\ committee_evaluations = [i \in 1..NumPersonas |-> NoResponse]
    /\ overtaken = FALSE
    /\ committee_analysis = NoAnalysis
    /\ evaluation_results = NoResult

\* the service is configured with an API key, so that it has a vector store
InitTailor ==
    /\ EvalIdle
    /\ PureIdle
    /\ MOCK_PINECONE \in BOOLEAN
    /\ OPENAI_API_KEY = TRUE
    /\ vs_calls = <<>>
    /\ index = {}
    /\ running = 0
    /\ pc = [r \in Requests |-> "idle"]
    /\ user_cv_text = [r \in Requests |-> NoText]
    /\ job_description = [r \in Requests |-> NoJobDescription]
    /\ http_error = [r \in Requests |-> NoError]
    /\ docs = [r \in Requests |-> {}]
    /\ retrieved = [r \in Requests |-> {}]
    /\ generator_input = [r \in Requests |-> EmptyString]

\* a request arrives and one of the validators raises: the handler ends with
\* that HTTPException before it has called the vector store
tailor_cv_validation_error(r) ==
    /\ pc[r] = "idle"
    /\ EventLoopFree(r)
    /\ \E jd \in JobDescriptions, t \in Texts(r) :
          LET error == IF validate_job_description(jd).raised
                       THEN validate_job_description(jd)
                       ELSE validate_cv_text(t)
          IN /\ <<jd, t>> \in RequestTexts(r)
             /\ error.raised
             /\ job_description' = [job_description EXCEPT ![r] = jd]
             /\ user_cv_text' = [user_cv_text EXCEPT ![r] = t]
             /\ http_error' = [http_error EXCEPT ![r] = error]
    /\ pc' = [pc EXCEPT ![r] = "rejected"]
    /\ UNCHANGED <<evalVars, pureVars, tryVars, storeVars, MOCK_PINECONE, index, running, docs, retrieved,
                   generator_input>>

\* a request arrives: its texts are validated and the CV text is split into documents
tailor_cv_create_documents(r) ==
    /\ pc[r] = "idle"
    /\ EventLoopFree(r)
    /\ \E jd \in JobDescriptions, t \in Texts(r) :
          /\ <<jd, t>> \in RequestTexts(r)
          /\ ~validate_job_description(jd).raised
          /\ ~validate_cv_text(t).raised
          /\ job_description' = [job_description EXCEPT ![r] = jd]
          /\ user_cv_text' = [user_cv_text EXCEPT ![r] = t]
          /\ docs' = [docs EXCEPT ![r] = create_documents(r, validate_cv_text(t).value)]
    /\ running' = IF MOCK_PINECONE THEN r ELSE running
    /\ pc' = [pc EXCEPT ![r] = "clear"]
    /\ UNCHANGED <<evalVars, pureVars, tryVars, storeVars, MOCK_PINECONE, index, retrieved, generator_input,
                   http_error>>

\* vectorstore_service.clear_vectorstore()
tailor_cv_clear_vectorstore(r) ==
    /\ pc[r] = "clear"
    /\ EventLoopFree(r)
    /\ index' = ClearedStore(index, MOCK_PINECONE)
    /\ pc' = [pc EXCEPT ![r] = "add"]
    /\ UNCHANGED <<evalVars, pureVars, tryVars, storeVars, requestVars, MOCK_PINECONE, running, user_cv_text,
                   docs, retrieved, generator_input>>

\* vectorstore_service.add_documents(docs)
tailor_cv_add_documents(r) ==
    /\ pc[r] = "add"
    /\ EventLoopFree(r)
    /\ index' = index \cup docs[r]
    /\ pc' = [pc EXCEPT ![r] = "retrieve"]
    /\ UNCHANGED <<evalVars, pureVars, tryVars, storeVars, requestVars, MOCK_PINECONE, running, user_cv_text,
                   docs, retrieved, generator_input>>

\* vectorstore_service.retrieve_documents(validated_job_description)
tailor_cv_retrieve_documents(r) ==
    /\ pc[r] = "retrieve"
    /\ EventLoopFree(r)
    /\ \E ds \in RetrievalResults(index, RETRIEVAL_K) :
          retrieved' = [retrieved EXCEPT ![r] = ds]
    /\ pc' = [pc EXCEPT ![r] = "generate"]
    /\ UNCHANGED <<evalVars, pureVars, tryVars, storeVars, requestVars, MOCK_PINECONE, index, running,
                   user_cv_text, docs, generator_input>>

\* the CV text argument of ai_service.extract_structured_cv_data
GeneratorArgument(r) == StringOf(user_cv_text[r])

\* extract_structured_cv_data and the transformation succeed; the request then
\* suspends in evaluate_cv_complete
tailor_cv_generate(r) ==
    /\ pc[r] = "generate"
    /\ EventLoopFree(r)
    /\ generator_input' = [generator_input EXCEPT ![r] = GeneratorArgument(r)]
    /\ running' = IF running = r THEN 0 ELSE running
    /\ pc' = [pc EXCEPT ![r] = "evaluate"]
    /\ UNCHANGED <<evalVars, pureVars, tryVars, storeVars, requestVars, MOCK_PINECONE, index, user_cv_text,
                   docs, retrieved>>

\* the model call, the JSON parse or the transformation raises: HTTP 500
tailor_cv_generate_error(r) ==
    /\ pc[r] = "generate"
    /\ EventLoopFree(r)
    /\ generator_input' = [generator_input EXCEPT ![r] = GeneratorArgument(r)]
    /\ running' = IF running = r THEN 0 ELSE running
    /\ pc' = [pc EXCEPT ![r] = "error"]
    /\ UNCHANGED <<evalVars, pureVars, tryVars, storeVars, requestVars, MOCK_PINECONE, index, user_cv_text,
                   docs, retrieved>>

\* the evaluation returns and the response is sent
tailor_cv_return(r) ==
    /\ pc[r] = "evaluate"
    /\ EventLoopFree(r)
    /\ pc' = [pc EXCEPT ![r] = "done"]
    /\ UNCHANGED <<evalVars, pureVars, tryVars, storeVars, requestVars, MOCK_PINECONE, index, running,
                   user_cv_text, docs, retrieved, generator_input>>

NextTailor ==
    \/ \E r \in Requests : tailor_cv_validation_error(r)
    \/ \E r \in Requests : tailor_cv_create_documents(r)
    \/ \E r \in Requests : tailor_cv_clear_vectorstore(r)
    \/ \E r \in Requests : tailor_cv_add_documents(r)
    \/ \E r \in Requests : tailor_cv_retrieve_documents(r)
    \/ \E r \in Requests : tailor_cv_generate(r)
    \/ \E r \in Requests : tailor_cv_generate_error(r)
    \/ \E r \in Requests : tailor_cv_return(r)

SpecTailor == InitTailor /\ [][NextTailor]_vars

\* request r is being served
InFlight(r) == pc[r] \notin {"idle", "done", "error", "rejected"}

\* requests served one after the other: a request arrives only when none is in flight
tailor_cv_next_request(r) ==
    /\ \A q \in Requests : ~InFlight(q)
    /\ tailor_cv_create_documents(r)

tailor_cv_next_request_rejected(r) ==
    /\ \A q \in Requests : ~InFlight(q)
    /\ tailor_cv_validation_error(r)

NextTailorSequential ==
    \/ \E r \in Requests : tailor_cv_next_request_rejected(r)
    \/ \E r \in Requests : tailor_cv_next_request(r)
    \/ \E r \in Requests : tailor_cv_clear_vectorstore(r)
    \/ \E r \in Requests : tailor_cv_add_documents(r)
    \/ \E r \in Requests : tailor_cv_retrieve_documents(r)
    \/ \E r \in Requests : tailor_cv_generate(r)
    \/ \E r \in Requests : tailor_cv_generate_error(r)
    \/ \E r \in Requests : tailor_cv_return(r)

SpecTailorSequential == InitTailor /\ [][NextTailorSequential]_vars

(* ------------------------------ SpecDate ------------------------------- *)
\* the date functions of cv_models.py, applied as the date scripts apply them:
\* a string is parsed and, when a value comes back, formatted; the formatted
\* string is parsed again.  format_date is also applied to DateValue objects
\* built directly.
InitDate ==
    /\ EvalIdle
    /\ TailorIdle
    /\ TextIdle
    /\ TransformIdle
    /\ TryIdle
    /\ now_year \in CurrentYears
    /\ \/ pcDate = "string" /\ date_string \in DateStrings /\ date_value = NullDate
       \/ pcDate = "value" /\ date_string = <<>> /\ date_value \in DateValues
    /\ parsed = NullDate
    /\ formatted = NoOutcome
    /\ reparsed = NullDate

\* parsed = parse_date_string(date_str)
parse_date_string_call ==
    /\ pcDate = "string"
    /\ parsed' = parse_date_string(date_string, now_year)
    /\ pcDate' = "parsed"
    /\ UNCHANGED <<evalVars, tailorVars, textVars, transformVars, tryVars, date_string,
                   now_year, date_value, formatted, reparsed>>

\* if parsed: formatted = format_date(parsed)
format_date_parsed ==
    /\ pcDate = "parsed"
    /\ parsed # NullDate
    /\ date_value' = parsed
    /\ formatted' = format_date(parsed)
    /\ pcDate' = "formatted"
    /\ UNCHANGED <<evalVars, tailorVars, textVars, transformVars, tryVars, date_string,
                   now_year, parsed, reparsed>>

\* format_date applied to a DateValue built directly
format_date_call ==
    /\ pcDate = "value"
    /\ formatted' = format_date(date_value)
    /\ pcDate' = "formatted"
    /\ UNCHANGED <<evalVars, tailorVars, textVars, transformVars, tryVars, date_string,
                   now_year, parsed, date_value, reparsed>>

\* the formatted string is parsed again
parse_date_string_again ==
    /\ pcDate = "formatted"
    /\ ~formatted.raised
    /\ reparsed' = parse_date_string(formatted.text, now_year)
    /\ pcDate' = "reparsed"
    /\ UNCHANGED <<evalVars, tailorVars, textVars, transformVars, tryVars, date_string,
                   now_year, parsed, date_value, formatted>>

NextDate ==
    \/ parse_date_string_call
    \/ format_date_parsed
    \/ format_date_call
    \/ parse_date_string_again

SpecDate == InitDate /\ [][NextDate]_vars

(* ---------------------------- SpecTransform ---------------------------- *)
\* transform_ai_data_to_cv_data applied to a raw mapping
InitTransform ==
    /\ EvalIdle
    /\ TailorIdle
    /\ TextIdle
    /\ TryIdle
    /\ DateCallsIdle
    /\ now_year \in CurrentYears
    /\ ai_data \in SectionMappings \/ IsFieldMapping(ai_data)
    /\ pcTransform = "start"
    /\ cv_data = NoCVData

transform_ai_data_to_cv_data_call ==
    /\ pcTransform = "start"
    /\ cv_data' = transform_ai_data_to_cv_data(ai_data, now_year)
    /\ pcTransform' = IF transform_ai_data_to_cv_data(ai_data, now_year).raised
                      THEN "raised" ELSE "returned"
    /\ UNCHANGED <<evalVars, tailorVars, textVars, dateVars, tryVars, ai_data>>

NextTransform == transform_ai_data_to_cv_data_call

SpecTransform == InitTransform /\ [][NextTransform]_vars

(* ------------------------- SpecTailorResponse -------------------------- *)
\* The try block of tailor_cv for one request: the model's reply is parsed
\* into raw_ai_data, transformed and dumped to a dictionary, evaluated by
\* evaluate_cv_complete, and returned with the evaluation under 'analysis'.

\* d[key] = value
SetItem_Replace(d, key, value) == [k \in {key} |-> value]

SetItem(d, key, value) ==
    [k \in DOMAIN d \cup {key} |-> IF k = key THEN value ELSE d[k]]

\* cv_data.model_dump(): the dictionary of the model's fields
cv_data_to_dict(cv) == [k \in DOMAIN cv |-> cv[k]]

\* a complete mapping, as sample_ai_data of test_date_flow.py
StandardMapping ==
    [personal |-> StandardPersonal,
     professional_summary |-> Str(SomeText),
     experience |-> JList(<<StandardExperience>>),
     education |-> JList(<<StandardEducation>>),
     projects |-> JList(<<StandardProject>>),
     skills |-> StandardSkills,
     licenses_certifications |-> JList(<<StandardCertification>>)]

\* what json.loads of the model's reply can be in this specification: a
\* complete mapping, the empty mapping, a mapping the transformation rejects
GeneratedMappings ==
    {StandardMapping, EmptyMapping, [EmptyMapping EXCEPT !.professional_summary = JNull]}

HTTP200(body) == [status |-> 200, body |-> body, detail |-> ""]

\* raise HTTPException(status_code=500, detail=str(e))
HTTP500(e) == [status |-> 500, body |-> <<>>, detail |-> e.message]

NoHTTPResponse == [status |-> 0, body |-> <<>>, detail |-> ""]

NoException == [type |-> "", message |-> ""]

\* what can go wrong between the call of the generation model and the response
FailureCauses == {"provider", "format", "transformation", "evaluation"}

\* the exception that reaches the except clause of tailor_cv for each cause: the
\* services catch whatever was raised and raise a plain Exception whose message
\* starts with the name of the failed operation
ExceptionFor(cause) ==
    CASE cause = "provider" -> [type |-> "Exception", message |-> "Failed to extract CV data"]
      [] cause = "format" -> [type |-> "Exception", message |-> "Failed to extract CV data"]
      [] cause = "transformation" ->
            [type |-> "Exception", message |-> "Failed to transform AI data to CVData"]
      [] cause = "evaluation" -> [type |-> "Exception", message |-> "Failed to evaluate CV"]

\* the score vectors evaluate_cv_with_ragas can return: zeros from an early
\* return or from the except branch, else the sanitized record of the engine
RagasReturns(available, count) ==
    IF SkipEngine(available, count) THEN {ZeroScores}
    ELSE {ZeroScores} \cup {SanitizeRagasScores(rec) : rec \in EngineRecords}

\* the lists asyncio.gather hands back when every persona call returned
GatheredResponses(n) ==
    {[i \in 1..n |-> [call |-> i, score |-> sc[i]]] : sc \in [1..n -> ScoreValues]}

InitTailorResponse ==
    /\ TailorIdle
    /\ TextIdle
    /\ DateCallsIdle
    /\ now_year \in CurrentYears
    /\ TransformIdle
    /\ RAGAS_AVAILABLE \in BOOLEAN
    /\ EVALUATION_PERSONAS = NumPersonas
    /\ retrieved_docs \in 0..MaxDocs
    /\ pcComplete = "start"
    /\ pcRagas = "none"
    /\ pcCommittee = "none"
    /\ engineInvoked = FALSE
    /\ ragas_result = NoRagas
    /\ ragasOutcome = "none"
    /\ ragas_scores = NoRagas
    /\ personaTask = [i \in 1..NumPersonas |-> "none"]
    /\ committee_evaluations = [i \in 1..NumPersonas |-> NoResponse]
    /\ overtaken = FALSE
    /\ committee_analysis = NoAnalysis
    /\ evaluation_results = NoResult
    /\ pcTry = "generate"
    /\ structured_content = <<>>
    /\ response = NoHTTPResponse
    /\ failure_cause = "none"
    /\ exc = NoException

\* what the try block leaves alone in the evaluation service
evalInternals == <<pcComplete, pcRagas, pcCommittee, engineInvoked, ragas_result,
                   ragasOutcome, personaTask, overtaken>>

\* raw_ai_data = await ai_service.extract_structured_cv_data(...)
tailor_cv_extract_structured_cv_data ==
    /\ pcTry = "generate"
    /\ ai_data' \in GeneratedMappings
    /\ pcTry' = "transform"
    /\ UNCHANGED <<evalVars, tailorVars, textVars, dateVars, pcTransform, cv_data,
                   structured_content, response, failure_cause, exc>>

\* the model call raises or json.loads raises: extract_structured_cv_data
\* raises in their place, and the except clause answers with HTTP 500
tailor_cv_extract_error ==
    /\ pcTry = "generate"
    /\ \E cause \in {"provider", "format"} :
          /\ failure_cause' = cause
          /\ exc' = ExceptionFor(cause)
          /\ response' = HTTP500(ExceptionFor(cause))
    /\ pcTry' = "error"
    /\ UNCHANGED <<evalVars, tailorVars, textVars, dateVars, transformVars, structured_content>>

\* cv_data = transform_ai_data_to_cv_data(raw_ai_data); structured_content =
\* cv_data_to_dict(cv_data); evaluate_cv_complete is called and awaited.
\* A transformation error is answered with HTTP 500.
tailor_cv_transform ==
    /\ pcTry = "transform"
    /\ cv_data' = transform_ai_data_to_cv_data(ai_data, now_year)
    /\ IF transform_ai_data_to_cv_data(ai_data, now_year).raised
       THEN /\ pcTransform' = "raised"
            /\ failure_cause' = "transformation"
            /\ exc' = ExceptionFor("transformation")
            /\ response' = HTTP500(ExceptionFor("transformation"))
            /\ pcTry' = "error"
            /\ UNCHANGED structured_content
       ELSE /\ pcTransform' = "returned"
            /\ structured_content' =
                  cv_data_to_dict(transform_ai_data_to_cv_data(ai_data, now_year).value)
            /\ pcTry' = "evaluate"
            /\ UNCHANGED <<response, failure_cause, exc>>
    /\ UNCHANGED <<evalVars, tailorVars, textVars, dateVars, ai_data>>

\* evaluate_cv_complete returns (both tracks returned, taken in one step: nothing
\* else runs in this specification); structured_content['analysis'] =
\* evaluation_results; return structured_content
tailor_cv_respond ==
    /\ pcTry = "evaluate"
    /\ \E scores \in RagasReturns(RAGAS_AVAILABLE, retrieved_docs),
          evals \in GatheredResponses(EVALUATION_PERSONAS) :
          LET results == [ragas_scores |-> scores,
                          committee_evaluation |-> CommitteeAnalysis(evals)]
          IN /\ ragas_scores' = scores
             /\ committee_evaluations' = evals
             /\ committee_analysis' = CommitteeAnalysis(evals)
             /\ evaluation_results' = results
             /\ structured_content' = SetItem(structured_content, "analysis", results)
             /\ response' = HTTP200(SetItem(structured_content, "analysis", results))
    /\ pcTry' = "returned"
    /\ UNCHANGED <<evalInputs, evalInternals, tailorVars, textVars, dateVars, transformVars,
                   failure_cause, exc>>

\* evaluate_cv_complete raises (a persona call raised): HTTP 500
tailor_cv_evaluation_error ==
    /\ pcTry = "evaluate"
    /\ failure_cause' = "evaluation"
    /\ exc' = ExceptionFor("evaluation")
    /\ response' = HTTP500(ExceptionFor("evaluation"))
    /\ pcTry' = "error"
    /\ UNCHANGED <<evalVars, tailorVars, textVars, dateVars, transformVars, structured_content>>

NextTailorResponse ==
    \/ tailor_cv_extract_structured_cv_data
    \/ tailor_cv_extract_error
    \/ tailor_cv_transform
    \/ tailor_cv_respond
    \/ tailor_cv_evaluation_error

SpecTailorResponse == InitTailorResponse /\ [][NextTailorResponse]_vars

(* --------------------- the vector store service ------------------------ *)
\* variant: a vector store is built whether or not the embeddings exist
_initialize_vectorstore_WithoutEmbeddings(key, mock) == IF mock THEN "chroma" ELSE "pinecone"

\* _initialize_components and _initialize_vectorstore: without an API key there
\* are no embeddings and self.vectorstore stays None
_initialize_vectorstore(key, mock) ==
    IF ~key THEN "none" ELSE IF mock THEN "chroma" ELSE "pinecone"

\* raise ValueError("Vectorstore not initialized")
NotInitialized(method) ==
    [method |-> method, raised |-> TRUE, detail |-> "Vectorstore not initialized", value |-> {}]

\* a call that returned
CallReturned(method, value) == [method |-> method, raised |-> FALSE, detail |-> "", value |-> value]

\* the document lists handed to add_documents: the chunks of an accepted text
DocumentLists ==
    {create_documents(r, sanitize_user_input(t)) : <<r, t>> \in
        {p \in Requests \X UNION {AcceptedTexts(r) : r \in Requests} : p[2].id = p[1]}}

\* the k argument of retrieve_documents: 0 stands for None
RetrievalSizes == {0, 1}

InitVectorstore ==
    /\ EvalIdle
    /\ PureIdle
    /\ RequestsIdle
    /\ MOCK_PINECONE \in BOOLEAN
    /\ OPENAI_API_KEY \in BOOLEAN
    /\ index = {}
    /\ vs_calls = <<>>

\* vectorstore_service.add_documents(documents)
add_documents_call ==
    /\ Len(vs_calls) < MaxCalls
    /\ \E documents \in DocumentLists :
          IF _initialize_vectorstore(OPENAI_API_KEY, MOCK_PINECONE) = "none"
          THEN /\ vs_calls' = Append(vs_calls, NotInitialized("add_documents"))
               /\ UNCHANGED index
          ELSE /\ index' = index \cup documents
               /\ vs_calls' = Append(vs_calls, CallReturned("add_documents", documents))
    /\ UNCHANGED <<evalVars, pureVars, tryVars, requestVars, MOCK_PINECONE, OPENAI_API_KEY,
                   running, pc, user_cv_text, docs, retrieved, generator_input>>

\* vectorstore_service.retrieve_documents(query, k): k = k or settings.RETRIEVAL_K
retrieve_documents_call ==
    /\ Len(vs_calls) < MaxCalls
    /\ \E k \in RetrievalSizes :
          IF _initialize_vectorstore(OPENAI_API_KEY, MOCK_PINECONE) = "none"
          THEN vs_calls' = Append(vs_calls, NotInitialized("retrieve_documents"))
          ELSE \E ds \in RetrievalResults(index, IF k = 0 THEN RETRIEVAL_K ELSE k) :
                  vs_calls' = Append(vs_calls, CallReturned("retrieve_documents", ds))
    /\ UNCHANGED <<evalVars, pureVars, tryVars, requestVars, MOCK_PINECONE, OPENAI_API_KEY,
                   index, running, pc, user_cv_text, docs, retrieved, generator_input>>

\* vectorstore_service.clear_vectorstore(): returns at once without a vector store
clear_vectorstore_call ==
    /\ Len(vs_calls) < MaxCalls
    /\ index' = IF _initialize_vectorstore(OPENAI_API_KEY, MOCK_PINECONE) = "none"
                THEN index
                ELSE ClearedStore(index, MOCK_PINECONE)
    /\ vs_calls' = Append(vs_calls, CallReturned("clear_vectorstore", {}))
    /\ UNCHANGED <<evalVars, pureVars, tryVars, requestVars, MOCK_PINECONE, OPENAI_API_KEY,
                   running, pc, user_cv_text, docs, retrieved, generator_input>>

NextVectorstore ==
    \/ add_documents_call
    \/ retrieve_documents_call
    \/ clear_vectorstore_call

SpecVectorstore == InitVectorstore /\ [][NextVectorstore]_vars

(* ---------------------------- SpecSanitize ----------------------------- *)
InitSanitize ==
    /\ EvalIdle
    /\ TailorIdle
    /\ DateIdle
    /\ TransformIdle
    /\ TryIdle
    /\ ExtractIdle
    /\ input_text \in InputTexts
    /\ max_length \in MaxLengths
    /\ pcSanitize = "start"
    /\ sanitized = <<>>

\* sanitized = sanitize_user_input(text, max_length)
sanitize_user_input_call ==
    /\ pcSanitize = "start"
    /\ sanitized' = SanitizeText(input_text, max_length)
    /\ pcSanitize' = "returned"
    /\ UNCHANGED <<evalVars, tailorVars, dateVars, transformVars, tryVars, extractVars,
                   input_text, max_length>>

NextSanitize == sanitize_user_input_call

SpecSanitize == InitSanitize /\ [][NextSanitize]_vars

(* ----------------------------- SpecExtract ----------------------------- *)
InitExtract ==
    /\ EvalIdle
    /\ TailorIdle
    /\ DateIdle
    /\ TransformIdle
    /\ TryIdle
    /\ SanitizeIdle
    /\ content \in Replies
    /\ pcExtract = "replied"
    /\ extracted = [raised |-> FALSE, value |-> "none"]

\* the reply of the model is cleaned and parsed, and the result is returned
extract_structured_cv_data_return ==
    /\ pcExtract = "replied"
    /\ ~ParseReply(content).raised
    /\ extracted' = ParseReply(content)
    /\ pcExtract' = "returned"
    /\ UNCHANGED <<evalVars, tailorVars, dateVars, transformVars, tryVars, sanitizeVars,
                   content>>

\* the parser raises, and the except clause raises in its place
extract_structured_cv_data_raise ==
    /\ pcExtract = "replied"
    /\ ParseReply(content).raised
    /\ extracted' = ParseReply(content)
    /\ pcExtract' = "raised"
    /\ UNCHANGED <<evalVars, tailorVars, dateVars, transformVars, tryVars, sanitizeVars,
                   content>>

NextExtract ==
    \/ extract_structured_cv_data_return
    \/ extract_structured_cv_data_raise

SpecExtract == InitExtract /\ [][NextExtract]_vars

(* ============================= properties ============================== *)

\* a value is a finite number
Finite(x) == x.k = "num"

(* C1: in evaluate_cv_complete a failure of either track does not prevent  *)
(* the other track's result from being returned: the call never ends by    *)
(* raising, and once it has ended its result carries Track A's scores      *)
(* (the all-zero vector when Track A failed) and a committee value.        *)
C1_TrackFailureIsolated ==
    EVALUATION_PERSONAS = NumPersonas =>
        /\ pcComplete # "raised"
        /\ pcComplete = "returned" =>
              /\ evaluation_results.ragas_scores = ragas_scores
              /\ ragasOutcome = "error" => evaluation_results.ragas_scores = ZeroScores
              /\ evaluation_results.committee_evaluation.average_score.k = "num"

(* C2: average_score is the mean, rounded to 2 decimals, of one value per  *)
(* persona response: the score when it is a finite number, 0 otherwise;    *)
(* invalid responses stay in the denominator; no responses give 0.0.       *)
C2_ValueOf(e) == IF e.score.k = "num" THEN e.score.v ELSE 0

C2_Total == SumSeq([i \in 1..EVALUATION_PERSONAS |-> C2_ValueOf(committee_evaluations[i])])

C2_Abs(x) == IF x < 0 THEN -x ELSE x

C2_AverageIsMeanOverAllResponses ==
    pcCommittee = "returned" =>
        /\ committee_analysis.average_score.k = "num"
        /\ LET a == committee_analysis.average_score.v
               n == EVALUATION_PERSONAS
           IN IF n = 0 THEN a = 0
              ELSE 2 * C2_Abs(n * a - 100 * C2_Total) <= n

\* responses [MaxScore, "bad", NaN]: the average is MaxScore/3, not MaxScore
C2_Witness ==
    /\ pcCommittee = "returned"
    /\ EVALUATION_PERSONAS = 3
    /\ committee_evaluations[1].score = Num(MaxScore)
    /\ committee_evaluations[2].score = NonNumeric
    /\ committee_evaluations[3].score = NaN
    /\ committee_analysis.average_score.v # 100 * MaxScore
    /\ committee_analysis.average_score.v > 0

(* C3: if one persona call fails (malformed output or provider error)      *)
(* while the others succeed, evaluate_cv_with_committee still returns a    *)
(* combined result in which the failed persona counts as score 0.          *)
C3_OneFailedPersonaTolerated ==
    (/\ EVALUATION_PERSONAS = NumPersonas
     /\ pcCommittee \in {"returned", "raised"}
     /\ \E i \in Personas :
           /\ personaTask[i] = "failed"
           /\ \A j \in Personas \ {i} : personaTask[j] = "done")
    => /\ pcCommittee = "returned"
       /\ Len(committee_analysis.individual_evaluations) = EVALUATION_PERSONAS
       /\ committee_analysis.average_score.k = "num"

(* C4: no NaN or Infinity is present anywhere in a returned evaluation     *)
(* result: not in a retrieval metric, not in average_score, not in the     *)
(* score of an entry of individual_evaluations.                            *)
C4_NoInvalidNumberReturned ==
    pcComplete = "returned" /\ EVALUATION_PERSONAS = NumPersonas =>
        /\ \A m \in MetricNames : ~IsNanOrInf(evaluation_results.ragas_scores[m])
        /\ ~IsNanOrInf(evaluation_results.committee_evaluation.average_score)
        /\ \A i \in 1..Len(evaluation_results.committee_evaluation.individual_evaluations) :
              ~IsNanOrInf(evaluation_results.committee_evaluation.individual_evaluations[i].score)

(* C8: one persona call is dispatched per entry of the persona list, and   *)
(* evaluate_cv_with_committee returns only after all of them completed:    *)
(* a returned result has N individual_evaluations, entry i being the       *)
(* response of call i, and no call is pending when it is returned.         *)
C8_ReturnsOnlyAfterAllPersonaCalls ==
    /\ pcCommittee \in {"await", "returned", "raised"} =>
          \A i \in 1..NumPersonas : (personaTask[i] # "none") <=> (i \in Personas)
    /\ pcCommittee = "returned" =>
          /\ Len(committee_analysis.individual_evaluations) = EVALUATION_PERSONAS
          /\ \A i \in Personas :
                /\ personaTask[i] = "done"
                /\ committee_analysis.individual_evaluations[i].call = i

C8_Witness ==
    /\ pcCommittee = "returned"
    /\ EVALUATION_PERSONAS = NumPersonas
    /\ Len(committee_analysis.individual_evaluations) = NumPersonas

(* C9: evaluate_cv_with_ragas returns the all-zero score vector, without   *)
(* invoking the metrics engine, whenever the engine is unavailable or the  *)
(* retrieved context is empty.                                             *)
C9_DegradedInputsGiveZerosWithoutEngine ==
    (~RAGAS_AVAILABLE \/ retrieved_docs = 0) =>
        /\ ~engineInvoked
        /\ pcRagas # "engine"
        /\ pcRagas = "returned" => ragas_scores = ZeroScores /\ ragasOutcome \in {"unavailable", "empty"}

C9_Witness ==
    /\ RAGAS_AVAILABLE
    /\ retrieved_docs = 0
    /\ pcRagas = "returned"
    /\ ragas_scores = ZeroScores
    /\ ~engineInvoked

HasRetrieved(r) == pc[r] \in {"generate", "evaluate", "done", "error"}

\* request r has passed its add_documents
HasAdded(r) == pc[r] \in {"retrieve", "generate", "evaluate", "done", "error"}

(* C5: with two tailoring requests in flight against the same vector       *)
(* store, a state is reachable in which request b's retrieval returned a   *)
(* chunk of request a's text, or in which b's chunks were deleted before   *)
(* b retrieved them (C5_Witness).  The index is not isolated per request:  *)
(* a chunk of another request in b's retrieved context was added by that   *)
(* request to the same store before b retrieved, and the store is the      *)
(* external one; within one process tailor_cv does not yield between its   *)
(* clear and its retrieval.                                                *)
C5_ForeignChunksComeFromSharedStore ==
    \A b \in Requests : \A d \in retrieved[b] :
        d.req # b => /\ d.req \in Requests
                     /\ HasAdded(d.req)
                     /\ d \in docs[d.req]
                     /\ ~MOCK_PINECONE

C5_Witness ==
    \E a, b \in Requests :
        /\ a # b
        /\ InFlight(a)
        /\ InFlight(b)
        /\ \/ HasRetrieved(b) /\ \E d \in retrieved[b] : d.req = a
           \/ pc[b] = "retrieve" /\ ~(docs[b] \subseteq index)

(* C6: after the indexing step of a request (clear_vectorstore, then       *)
(* add_documents), with either backend and after any sequence of           *)
(* sequential requests, the index holds exactly the chunks of that         *)
(* request's text and no chunk of an earlier request.                      *)
C6_IndexHoldsExactlyOwnChunks ==
    \A r \in Requests : pc[r] = "retrieve" => index = docs[r]

(* C7: the CV text handed to the generation model is the output of the     *)
(* retriever for that request (the joined retrieved context).              *)
C7_GeneratorConsumesRetrievedContext ==
    \A r \in Requests :
        pc[r] \in {"evaluate", "done", "error"} => generator_input[r] = JoinContext(retrieved[r])

(* ------------------------- the accepted formats ------------------------ *)
IsYearToken(t) == t.kind = "digits" /\ Len(t.ds) = 4

IsShortNumber(t) == t.kind = "digits" /\ Len(t.ds) \in {1, 2}

\* a 3-letter month abbreviation, in any letter case
IsMonthAbbreviation(t) == t.kind = "word" /\ \E i \in 1..12 : month_names_lower[i] = t.text

MonthPosition(t) == CHOOSE i \in 1..12 : month_names_lower[i] = t.text

\* "present" or "current", in any letter case
IsPresentForm(s) == Len(s) = 1 /\ s[1].kind = "word" /\ s[1].text \in {"present", "current"}

\* YYYY
IsYearForm(s) == Len(s) = 1 /\ IsYearToken(s[1])

\* <Mon> <YYYY>
IsMonthYearForm(s) ==
    LET q == Squeeze(s)
    IN Len(q) = 3 /\ IsMonthAbbreviation(q[1]) /\ q[2] = Blank /\ IsYearToken(q[3])

\* <D> <Mon> <YYYY>
IsDayMonthYearForm(s) ==
    LET q == Squeeze(s)
    IN /\ Len(q) = 5
       /\ IsShortNumber(q[1]) /\ q[2] = Blank /\ IsMonthAbbreviation(q[3]) /\ q[4] = Blank
       /\ IsYearToken(q[5])

\* MM/DD/YYYY
IsSlashForm(s) ==
    /\ Len(s) = 5
    /\ IsShortNumber(s[1]) /\ s[2] = Punct("/") /\ IsShortNumber(s[3]) /\ s[4] = Punct("/")
    /\ IsYearToken(s[5])

\* YYYY-MM-DD
IsDashForm(s) ==
    /\ Len(s) = 5
    /\ IsYearToken(s[1]) /\ s[2] = Punct("-") /\ IsShortNumber(s[3]) /\ s[4] = Punct("-")
    /\ IsShortNumber(s[5])

AcceptedForm(s) ==
    \/ IsPresentForm(s)
    \/ IsYearForm(s)
    \/ IsMonthYearForm(s)
    \/ IsDayMonthYearForm(s)
    \/ IsSlashForm(s)
    \/ IsDashForm(s)

(* C15: date round trip.  For every string in an accepted display format   *)
(* for which parse_date_string returns a value v, format_date(v) returns a *)
(* string and parse_date_string of that string has the same year, month,   *)
(* day and isPresent as v.                                                 *)
C15_RoundTrip ==
    (AcceptedForm(date_string) /\ parsed # NullDate) =>
        /\ pcDate = "formatted" => ~formatted.raised
        /\ pcDate = "reparsed" =>
              /\ reparsed.year = parsed.year
              /\ reparsed.month = parsed.month
              /\ reparsed.day = parsed.day
              /\ reparsed.isPresent = parsed.isPresent

(* C16: every DateValue returned by parse_date_string has month null or in *)
(* 1..12 and day null or in 1..31, so format_date of a parsed value never  *)
(* indexes outside the 12-entry month table.                               *)
C16_ParsedFieldsInRange ==
    (pcDate \in {"parsed", "formatted", "reparsed"} /\ parsed # NullDate) =>
        /\ parsed.month = None \/ parsed.month.v \in 1..12
        /\ parsed.day = None \/ parsed.day.v \in 1..31
        /\ pcDate = "formatted" => ~formatted.raised

(* C17: parse_date_string returns null for every non-empty string that     *)
(* matches none of the accepted patterns: free text, a date range, and a   *)
(* three-character token that is not a month abbreviation followed by a    *)
(* year all yield null.                                                    *)
C17_UnacceptedGivesNull ==
    (pcDate = "parsed" /\ date_string # <<>> /\ ~AcceptedForm(date_string)) =>
        parsed = NullDate

(* C18: parse_date_string maps each accepted form to the stated fields: a  *)
(* 4-digit year to a year-only value; "<Mon> <YYYY>" to year and month     *)
(* (the position of the abbreviation, in any letter case); "<D> <Mon>      *)
(* <YYYY>" to year, month and day; "MM/DD/YYYY" to month, day, year in     *)
(* that order; "YYYY-MM-DD" to year, month, day; isPresent is never set.   *)
C18_FormsMapToFields ==
    pcDate = "parsed" =>
        LET s == date_string
            q == Squeeze(date_string)
        IN /\ IsYearForm(s) => parsed = DateValue(Num(IntOf(s[1].ds)), None, None, None)
           /\ IsMonthYearForm(s) =>
                 parsed = DateValue(Num(IntOf(q[3].ds)), Num(MonthPosition(q[1])), None, None)
           /\ IsDayMonthYearForm(s) =>
                 parsed = DateValue(Num(IntOf(q[5].ds)), Num(MonthPosition(q[3])),
                                    Num(IntOf(q[1].ds)), None)
           /\ IsSlashForm(s) =>
                 parsed = DateValue(Num(IntOf(s[5].ds)), Num(IntOf(s[1].ds)),
                                    Num(IntOf(s[3].ds)), None)
           /\ IsDashForm(s) =>
                 parsed = DateValue(Num(IntOf(s[1].ds)), Num(IntOf(s[3].ds)),
                                    Num(IntOf(s[5].ds)), None)

\* "DEC 2023": the upper-case abbreviation is the 12th entry
C18_Witness ==
    /\ pcDate = "parsed"
    /\ date_string = <<Word("dec", "upper"), Blank, Digits(<<2, 0, 2, 3>>)>>
    /\ parsed = DateValue(Num(2023), Num(12), None, None)

(* C19: parse_date_string applied to "present" or "current" in any letter  *)
(* case returns a value with isPresent = true, year equal to the current   *)
(* year at call time, and no month or day.                                 *)
C19_PresentIsCurrentYear ==
    (pcDate = "parsed" /\ IsPresentForm(date_string)) =>
        parsed = DateValue(Num(now_year), None, None, Bool(TRUE))

\* "CURRENT" parsed in 2027
C19_Witness ==
    /\ pcDate = "parsed"
    /\ date_string = <<Word("current", "upper")>>
    /\ now_year = 2027
    /\ parsed.isPresent = Bool(TRUE)
    /\ parsed.year = Num(2027)

\* month and day are null or in the documented ranges 1..12 and 1..31
InDocumentedRange(v) ==
    /\ v.month = None \/ v.month.v \in 1..12
    /\ v.day = None \/ v.day.v \in 1..31

(* C20: format_date returns "Present" whenever isPresent is true, whatever *)
(* month and day are; otherwise "D Mon YYYY" when both day and month are   *)
(* set, "Mon YYYY" when only month is set, and "YYYY" when neither is set, *)
(* Mon being entry month-1 of the table Jan..Dec (month and day in their   *)
(* documented ranges).                                                     *)
C20_FormatDate ==
    pcDate \in {"formatted", "reparsed"} =>
        LET v == date_value
            year == <<Digits(DigitsOf(v.year.v))>>
        IN /\ v.isPresent = Bool(TRUE) => formatted = Returned(<<Word("present", "title")>>)
           /\ (v.isPresent # Bool(TRUE) /\ InDocumentedRange(v)) =>
                 /\ (v.day # None /\ v.month # None) =>
                       formatted = Returned(<<Digits(DigitsOf(v.day.v)), Blank,
                                              month_names[v.month.v], Blank>> \o year)
                 /\ (v.day = None /\ v.month # None) =>
                       formatted = Returned(<<month_names[v.month.v], Blank>> \o year)
                 /\ (v.day = None /\ v.month = None) => formatted = Returned(year)

\* 31 Dec 2023
C20_Witness ==
    /\ pcDate = "formatted"
    /\ date_value = DateValue(Num(2023), Num(12), Num(31), None)
    /\ formatted = Returned(<<Digits(<<3, 1>>), Blank, Word("dec", "title"), Blank,
                              Digits(<<2, 0, 2, 3>>)>>)

(* ------------------------ shapes of a raw mapping ---------------------- *)
ExperienceStrings == {"company", "role", "startDate", "endDate", "location", "description"}

EducationStrings == {"institution", "degree", "field", "startDate", "endDate", "gpa"}

ProjectStrings == {"name", "description", "link"}

CertificationStrings == {"name", "issuer", "date"}

ListSections == {"experience", "education", "projects", "licenses_certifications"}

\* a section is absent or has the expected structure: a mapping, or a sequence of mappings
StructureOK(ai) ==
    /\ ai.personal.t \in {"absent", "map"}
    /\ ai.skills.t \in {"absent", "map"}
    /\ \A sec \in ListSections :
          \/ ai[sec].t = "absent"
          \/ ai[sec].t = "list" /\ \A i \in 1..Len(ai[sec].items) : ai[sec].items[i].t = "map"

\* the entries of a list section (none when the section is absent)
RawEntries(ai, sec) == IF ai[sec].t = "list" THEN ai[sec].items ELSE <<>>

\* a list-valued field is absent or a list of strings
ListFieldOK(x) == x.t = "absent" \/ (x.t = "list" /\ \A i \in 1..Len(x.items) : x.items[i].t = "str")

ListFieldsOK(ai) ==
    /\ ai.skills.t = "map" => \A f \in SkillsFields : ListFieldOK(ai.skills[f])
    /\ \A i \in 1..Len(RawEntries(ai, "experience")) :
          ListFieldOK(RawEntries(ai, "experience")[i].achievements)
    /\ \A i \in 1..Len(RawEntries(ai, "projects")) :
          ListFieldOK(RawEntries(ai, "projects")[i].tech_stack)

\* a string-valued field is absent or a string
StringFieldOK(x) == x.t \in {"absent", "str"}

StringFieldsOK(ai) ==
    /\ StringFieldOK(ai.professional_summary)
    /\ ai.personal.t = "map" => \A f \in PersonalFields : StringFieldOK(ai.personal[f])
    /\ \A i \in 1..Len(RawEntries(ai, "experience")) :
          \A f \in ExperienceStrings : StringFieldOK(RawEntries(ai, "experience")[i][f])
    /\ \A i \in 1..Len(RawEntries(ai, "education")) :
          \A f \in EducationStrings : StringFieldOK(RawEntries(ai, "education")[i][f])
    /\ \A i \in 1..Len(RawEntries(ai, "projects")) :
          \A f \in ProjectStrings \cup {"startDate", "endDate"} :
              StringFieldOK(RawEntries(ai, "projects")[i][f])
    /\ \A i \in 1..Len(RawEntries(ai, "licenses_certifications")) :
          \A f \in CertificationStrings \cup {"expiry"} :
              StringFieldOK(RawEntries(ai, "licenses_certifications")[i][f])

\* nothing is wrong with the mapping except that keys and fields may be missing
OnlyMissing(ai) == StructureOK(ai) /\ ListFieldsOK(ai) /\ StringFieldsOK(ai)

(* C12: transform_ai_data_to_cv_data never fails because of a missing      *)
(* field: for a raw mapping in which any subset of the top-level keys and  *)
(* of the per-entry fields is absent, including {}, it does not raise and  *)
(* returns a CVData in which every absent list field is the empty list and *)
(* every absent string field is the empty string (null for the optional    *)
(* date strings of projects and certifications).                           *)
C12_MissingFieldsGetDefaults ==
    (pcTransform # "start" /\ OnlyMissing(ai_data)) =>
        /\ pcTransform = "returned"
        /\ ~cv_data.raised
        /\ LET cv == cv_data.value
           IN /\ ai_data.professional_summary = Absent => cv.professional_summary = Str(<<>>)
              /\ \A f \in PersonalFields :
                    (ai_data.personal = Absent \/ ai_data.personal[f] = Absent)
                        => cv.personal[f] = Str(<<>>)
              /\ \A f \in SkillsFields :
                    (ai_data.skills = Absent \/ ai_data.skills[f] = Absent)
                        => cv.skills[f] = JList(<<>>)
              /\ \A sec \in ListSections :
                    /\ ai_data[sec] = Absent => cv[sec] = <<>>
                    /\ Len(cv[sec]) = Len(RawEntries(ai_data, sec))
              /\ \A i \in 1..Len(cv.experience) :
                    /\ \A f \in ExperienceStrings :
                          ai_data.experience.items[i][f] = Absent
                              => cv.experience[i][f] = Str(<<>>)
                    /\ ai_data.experience.items[i].achievements = Absent
                          => cv.experience[i].achievements = JList(<<>>)
              /\ \A i \in 1..Len(cv.education) :
                    \A f \in EducationStrings :
                        ai_data.education.items[i][f] = Absent
                            => cv.education[i][f] = Str(<<>>)
              /\ \A i \in 1..Len(cv.projects) :
                    /\ \A f \in ProjectStrings :
                          ai_data.projects.items[i][f] = Absent
                              => cv.projects[i][f] = Str(<<>>)
                    /\ \A f \in {"startDate", "endDate"} :
                          ai_data.projects.items[i][f] = Absent => cv.projects[i][f] = JNull
                    /\ ai_data.projects.items[i].tech_stack = Absent
                          => cv.projects[i].tech_stack = JList(<<>>)
              /\ \A i \in 1..Len(cv.licenses_certifications) :
                    /\ \A f \in CertificationStrings :
                          ai_data.licenses_certifications.items[i][f] = Absent
                              => cv.licenses_certifications[i][f] = Str(<<>>)
                    /\ ai_data.licenses_certifications.items[i].expiry = Absent
                          => cv.licenses_certifications[i].expiry = JNull

\* the empty mapping {} is transformed into the all-default CVData
C12_Witness ==
    /\ pcTransform = "returned"
    /\ ai_data = EmptyMapping
    /\ cv_data.value.personal.name = Str(<<>>)
    /\ cv_data.value.professional_summary = Str(<<>>)
    /\ cv_data.value.experience = <<>>
    /\ cv_data.value.skills.technical = JList(<<>>)

\* the raw value s of a date field cannot be normalized
Unparseable(x) == x.t = "str" /\ x.s # <<>> /\ parse_date_string(x.s, now_year) = NullDate

\* a date field of an entry of the result: display string carried, value null
CarriedUnparsed(raw, out, display, value) ==
    Unparseable(raw[display]) => out[display] = raw[display] /\ out[value] = NullDate

(* C13: for every date-bearing field of every entry (experience,           *)
(* education, projects, certifications) a raw date string that cannot be   *)
(* normalized does not abort the transformation: the transformation        *)
(* succeeds, the structured value (startDateValue, endDateValue,           *)
(* dateValue, expiryValue) is null and the original display string is      *)
(* carried through unchanged.                                              *)
C13_UnparseableDateCarriedThrough ==
    (pcTransform # "start" /\ OnlyMissing(ai_data)) =>
        /\ ~cv_data.raised
        /\ LET cv == cv_data.value
           IN /\ \A i \in 1..Len(cv.experience) :
                    /\ CarriedUnparsed(ai_data.experience.items[i], cv.experience[i],
                                       "startDate", "startDateValue")
                    /\ CarriedUnparsed(ai_data.experience.items[i], cv.experience[i],
                                       "endDate", "endDateValue")
              /\ \A i \in 1..Len(cv.education) :
                    /\ CarriedUnparsed(ai_data.education.items[i], cv.education[i],
                                       "startDate", "startDateValue")
                    /\ CarriedUnparsed(ai_data.education.items[i], cv.education[i],
                                       "endDate", "endDateValue")
              /\ \A i \in 1..Len(cv.projects) :
                    /\ CarriedUnparsed(ai_data.projects.items[i], cv.projects[i],
                                       "startDate", "startDateValue")
                    /\ CarriedUnparsed(ai_data.projects.items[i], cv.projects[i],
                                       "endDate", "endDateValue")
              /\ \A i \in 1..Len(cv.licenses_certifications) :
                    /\ CarriedUnparsed(ai_data.licenses_certifications.items[i],
                                       cv.licenses_certifications[i], "date", "dateValue")
                    /\ CarriedUnparsed(ai_data.licenses_certifications.items[i],
                                       cv.licenses_certifications[i], "expiry", "expiryValue")

\* an experience entry with startDate "not a date" and endDate "Jan 2023"
C13_Witness ==
    /\ pcTransform = "returned"
    /\ ai_data.experience.t = "list"
    /\ Len(cv_data.value.experience) = 1
    /\ ai_data.experience.items[1].startDate = Str(NotADate)
    /\ cv_data.value.experience[1].startDate = Str(NotADate)
    /\ cv_data.value.experience[1].startDateValue = NullDate
    /\ cv_data.value.experience[1].endDateValue = DateValue(Num(2023), Num(1), None, None)

(* C14: transform_ai_data_to_cv_data raises only on a structural error of  *)
(* the raw data (a section present but not a sequence of mappings): every  *)
(* raw mapping whose sections have the expected structure is transformed   *)
(* without raising, whatever the values of its scalar fields.              *)
C14_RaisesOnlyOnStructuralError ==
    (pcTransform # "start" /\ StructureOK(ai_data) /\ ListFieldsOK(ai_data)) =>
        pcTransform = "returned" /\ ~cv_data.raised

(* C11: a tailoring request that completes successfully returns the        *)
(* dictionary of the transformed CV with one added key 'analysis' holding  *)
(* ragas_scores and committee_evaluation; average_score is the arithmetic  *)
(* mean (to two decimals) of the three persona scores, ragas_scores is all *)
(* zeros when the metrics engine is disabled, and every other key equals   *)
(* the output of the transformation layer.                                 *)
C11_ResponseIsTransformedCVPlusAnalysis ==
    pcTry = "returned" =>
        LET body == response.body
            cv == transform_ai_data_to_cv_data(ai_data, now_year)
            evals == body["analysis"].committee_evaluation.individual_evaluations
            average == body["analysis"].committee_evaluation.average_score
        IN /\ response.status = 200
           /\ ~cv.raised
           /\ DOMAIN body = DOMAIN cv.value \cup {"analysis"}
           /\ "analysis" \notin DOMAIN cv.value
           /\ \A key \in DOMAIN cv.value : body[key] = cv.value[key]
           /\ DOMAIN body["analysis"] = {"ragas_scores", "committee_evaluation"}
           /\ Len(evals) = NumPersonas
           /\ (\A i \in 1..NumPersonas : evals[i].score.k = "num") =>
                 /\ average.k = "num"
                 /\ 2 * C2_Abs(NumPersonas * average.v
                               - 100 * SumSeq([i \in 1..NumPersonas |-> evals[i].score.v]))
                       <= NumPersonas
           /\ ~RAGAS_AVAILABLE => body["analysis"].ragas_scores = ZeroScores

\* a complete CV with persona scores MaxScore, MaxScore, 0 and the engine disabled
C11_Witness ==
    /\ pcTry = "returned"
    /\ ~RAGAS_AVAILABLE
    /\ ai_data = StandardMapping
    /\ response.status = 200
    /\ response.body["personal"].name = Str(SomeText)
    /\ response.body["analysis"].ragas_scores = ZeroScores
    /\ committee_evaluations[1].score = Num(MaxScore)
    /\ committee_evaluations[2].score = Num(MaxScore)
    /\ committee_evaluations[3].score = Num(0)
    /\ response.body["analysis"].committee_evaluation.average_score
          = Num(Round2Mean(2 * MaxScore, 3))

\* no date string: the key is absent, its value is null or the empty string
NoDateString(x) == x \in {Absent, JNull, Str(<<>>)}

\* the structured value _parse_date computes for a date field of a raw entry
ComputedDateValue(raw, display, default) ==
    _parse_date(Get(raw, display, default), now_year)

\* a date field of an entry of the result: without a date string the value is null
NullWithoutDate(raw, out, display, value) ==
    NoDateString(raw[display]) => out[value] = NullDate

(* C30: in the transformation layer an absent, null or empty date string   *)
(* gives a null structured value for every date-bearing field of every     *)
(* entry (experience, education, projects, certifications), never a value  *)
(* with isPresent = true, although parse_date_string itself maps the empty *)
(* string to a Present value.                                              *)
C30_NoDateStringGivesNullValue ==
    /\ parse_date_string(<<>>, now_year) = DateValue(Num(now_year), None, None, Bool(TRUE))
    /\ pcTransform # "start" =>
          /\ \A sec \in {"experience", "education"} :
                \A i \in 1..Len(RawEntries(ai_data, sec)) :
                   \A f \in {"startDate", "endDate"} :
                      LET raw == RawEntries(ai_data, sec)[i]
                      IN (raw.t = "map" /\ NoDateString(raw[f])) =>
                            ComputedDateValue(raw, f, Str(<<>>)) = NullDate
          /\ \A i \in 1..Len(RawEntries(ai_data, "projects")) :
                \A f \in {"startDate", "endDate"} :
                   LET raw == RawEntries(ai_data, "projects")[i]
                   IN (raw.t = "map" /\ NoDateString(raw[f])) =>
                         ComputedDateValue(raw, f, JNull) = NullDate
          /\ \A i \in 1..Len(RawEntries(ai_data, "licenses_certifications")) :
                LET raw == RawEntries(ai_data, "licenses_certifications")[i]
                IN raw.t = "map" =>
                      /\ NoDateString(raw.date) =>
                            ComputedDateValue(raw, "date", Str(<<>>)) = NullDate
                      /\ NoDateString(raw.expiry) =>
                            ComputedDateValue(raw, "expiry", JNull) = NullDate
    /\ pcTransform = "returned" =>
          LET cv == cv_data.value
          IN /\ \A i \in 1..Len(cv.experience) :
                   /\ NullWithoutDate(ai_data.experience.items[i], cv.experience[i],
                                      "startDate", "startDateValue")
                   /\ NullWithoutDate(ai_data.experience.items[i], cv.experience[i],
                                      "endDate", "endDateValue")
             /\ \A i \in 1..Len(cv.education) :
                   /\ NullWithoutDate(ai_data.education.items[i], cv.education[i],
                                      "startDate", "startDateValue")
                   /\ NullWithoutDate(ai_data.education.items[i], cv.education[i],
                                      "endDate", "endDateValue")
             /\ \A i \in 1..Len(cv.projects) :
                   /\ NullWithoutDate(ai_data.projects.items[i], cv.projects[i],
                                      "startDate", "startDateValue")
                   /\ NullWithoutDate(ai_data.projects.items[i], cv.projects[i],
                                      "endDate", "endDateValue")
             /\ \A i \in 1..Len(cv.licenses_certifications) :
                   /\ NullWithoutDate(ai_data.licenses_certifications.items[i],
                                      cv.licenses_certifications[i], "date", "dateValue")
                   /\ NullWithoutDate(ai_data.licenses_certifications.items[i],
                                      cv.licenses_certifications[i], "expiry", "expiryValue")

\* an experience entry with startDate "" and no endDate is returned with null
\* startDateValue and endDateValue
C30_Witness ==
    /\ pcTransform = "returned"
    /\ ai_data.experience.t = "list"
    /\ Len(cv_data.value.experience) = 1
    /\ ai_data.experience.items[1].startDate = Str(<<>>)
    /\ ai_data.experience.items[1].endDate = Absent
    /\ cv_data.value.experience[1].startDate = Str(<<>>)
    /\ cv_data.value.experience[1].startDateValue = NullDate
    /\ cv_data.value.experience[1].endDateValue = NullDate

(* C28: the entries of individual_evaluations are in the order of the      *)
(* configured persona list: entry i is the result of the call dispatched   *)
(* for persona i, in whatever order the concurrent persona calls complete. *)
C28_EvaluationsInPersonaOrder ==
    pcCommittee = "returned" =>
        /\ Len(committee_analysis.individual_evaluations) = EVALUATION_PERSONAS
        /\ \A i \in Personas :
              /\ committee_analysis.individual_evaluations[i].call = i
              /\ committee_analysis.individual_evaluations[i] = committee_evaluations[i]

\* three calls of which a later one returned while an earlier one was pending
C28_Witness ==
    /\ pcCommittee = "returned"
    /\ EVALUATION_PERSONAS = NumPersonas
    /\ overtaken
    /\ committee_analysis.individual_evaluations[1].score = Num(0)
    /\ committee_analysis.individual_evaluations[NumPersonas].score = Num(MaxScore)

\* the metrics track has returned and every dispatched persona call has returned
C29_AllCompleted ==
    /\ pcRagas = "returned"
    /\ pcCommittee \in {"await", "returned"}
    /\ \A i \in Personas : personaTask[i] = "done"

\* evaluate_cv_complete has returned a result with both parts
C29_Returned ==
    /\ pcComplete = "returned"
    /\ DOMAIN evaluation_results = {"ragas_scores", "committee_evaluation"}
    /\ evaluation_results.ragas_scores = ragas_scores
    /\ evaluation_results.committee_evaluation = committee_analysis

(* C29: if the metrics computation and every persona call complete without *)
(* error, evaluate_cv_complete eventually returns a result containing both *)
(* ragas_scores and committee_evaluation; it returns only after both       *)
(* tracks have finished, and at most once: after the return neither its    *)
(* position nor its result changes.                                        *)
C29_EventuallyReturnsOnce ==
    /\ C29_AllCompleted ~> C29_Returned
    /\ [][/\ (pcComplete # "returned" /\ pcComplete' = "returned") =>
                (pcRagas = "returned" /\ pcCommittee = "returned")
          /\ pcComplete = "returned" =>
                (pcComplete' = "returned" /\ evaluation_results' = evaluation_results)]_vars

\* returned after the metrics track returned and three persona calls returned
C29_Witness ==
    /\ pcComplete = "returned"
    /\ pcRagas = "returned"
    /\ EVALUATION_PERSONAS = NumPersonas
    /\ \A i \in 1..NumPersonas : personaTask[i] = "done"
    /\ evaluation_results.committee_evaluation.average_score = Num(100 * MaxScore)

(* C27: every stage of a tailoring request after validation consumes the   *)
(* validated and sanitized text returned by the validators: the documents  *)
(* indexed are cut from the sanitized CV text, and the CV text handed to   *)
(* the generation model is the sanitized text, never the raw request text. *)
C27_StagesConsumeSanitizedText ==
    \A r \in Requests :
        /\ pc[r] \notin {"idle", "rejected"} =>
              docs[r] = create_documents(r, validate_cv_text(user_cv_text[r]).value)
        /\ pc[r] \in {"evaluate", "done", "error"} =>
              generator_input[r] = StringOf(validate_cv_text(user_cv_text[r]).value)

\* the texts of request r fail validation, in the words of the validators' contract
C23_FailsValidation(r) ==
    \/ job_description[r].blank
    \/ job_description[r].length < MinJobDescription
    \/ user_cv_text[r].blank
    \/ user_cv_text[r].length < MinCVText

\* the reasons a validator gives
C23_Reasons ==
    {"Job description is required", "Job description must be at least 10 characters long",
     "CV text is required", "CV text must be at least 50 characters long"}

(* C23: a tailoring request whose job description or CV text fails         *)
(* validation (empty or whitespace only, job description under 10 or CV    *)
(* text under 50 characters after sanitization) is rejected with status    *)
(* 400 and a specific reason before any index operation: the rejection     *)
(* leaves the index as it was, no document of the request is created,      *)
(* indexed or retrieved, the generator is not called and the request takes *)
(* no further step (it never reaches the evaluation).                      *)
C23_InvalidRequestRejectedBeforeIndexing ==
    /\ [](\A r \in Requests :
            pc[r] # "idle" =>
               /\ C23_FailsValidation(r) <=> pc[r] = "rejected"
               /\ pc[r] = "rejected" =>
                     /\ http_error[r].raised
                     /\ http_error[r].status_code = 400
                     /\ http_error[r].detail \in C23_Reasons
                     /\ (http_error[r].detail = "Job description is required")
                            <=> job_description[r].blank
                     /\ (http_error[r].detail = "CV text is required")
                            <=> (/\ ~job_description[r].blank
                                 /\ job_description[r].length >= MinJobDescription
                                 /\ user_cv_text[r].blank)
                     /\ docs[r] = {}
                     /\ retrieved[r] = {}
                     /\ generator_input[r] = EmptyString
                     /\ \A d \in index : d.req # r)
    /\ [][\A r \in Requests :
             /\ (pc[r] = "idle" /\ pc'[r] = "rejected") => index' = index
             /\ pc[r] = "rejected" => pc'[r] = "rejected"]_vars

\* a request with a whitespace-only CV text rejected while the index holds the
\* documents of another request
C23_Witness ==
    \E a, b \in Requests :
        /\ a # b
        /\ pc[b] = "rejected"
        /\ http_error[b] = HTTPException(400, "CV text is required")
        /\ user_cv_text[b].blank
        /\ HasAdded(a)
        /\ index = docs[a]
        /\ index # {}

(* C24: without credentials for the embedding provider no vector store is  *)
(* initialized, and indexing fails with an error: every add_documents and  *)
(* every retrieve_documents call raises, none returns, and no index state  *)
(* is created or modified.                                                 *)
C24_NoEmbeddingsNoIndexing ==
    ~OPENAI_API_KEY =>
        /\ index = {}
        /\ \A i \in 1..Len(vs_calls) :
              vs_calls[i].method \in {"add_documents", "retrieve_documents"} =>
                 /\ vs_calls[i].raised
                 /\ vs_calls[i].detail = "Vectorstore not initialized"
                 /\ vs_calls[i].value = {}

\* without an API key, add_documents and then retrieve_documents have raised
C24_Witness ==
    /\ ~OPENAI_API_KEY
    /\ Len(vs_calls) >= 2
    /\ vs_calls[1] = NotInitialized("add_documents")
    /\ vs_calls[2] = NotInitialized("retrieve_documents")
    /\ index = {}

(* C26: the text returned by sanitize_user_input contains, for every input *)
(* text, no <script>...</script> block, no "javascript:" in any letter     *)
(* case and no inline event handler of the form on<word>=, and it is at    *)
(* most max_length characters long.                                        *)
C26_SanitizedTextIsClean ==
    pcSanitize = "returned" =>
        /\ ~Search("script", sanitized)
        /\ ~Search("javascript", sanitized)
        /\ ~Search("handler", sanitized)
        /\ Len(sanitized) <= max_length

\* the reply is a JSON object inside a code fence: an opening fence, a language
\* tag or none, the object, a closing fence
FencedJsonObject(reply) ==
    LET s == Strip(reply)
    IN /\ Len(s) >= 2 * Len(Fence)
       /\ StartsWith(s, Fence)
       /\ EndsWith(s, Fence)
       /\ LET inner == SubSeq(s, Len(Fence) + 1, Len(s) - Len(Fence))
          IN IsJsonObject(SubSeq(inner, WordRunEnd(inner, 1), Len(inner)))

(* C21: extract_structured_cv_data removes the leading and the trailing    *)
(* code fence of the reply, with or without a language tag, before it      *)
(* parses the reply, so a JSON object wrapped in a fence is always parsed  *)
(* and the function never raises on it.                                    *)
C21_FencedJsonIsParsed ==
    (pcExtract # "replied" /\ FencedJsonObject(content)) =>
        (pcExtract = "returned" /\ extracted = [raised |-> FALSE, value |-> "dict"])

\* the failure kind the caller is handed: the class of the exception and the
\* status of the response
FailureKind(e) == [type |-> e.type, status |-> HTTP500(e).status]

(* C22: a failed model invocation, an unparseable reply and a malformed AI *)
(* payload each make the tailoring request fail, the caller is handed a    *)
(* failure kind that no other of these causes produces, and no default     *)
(* structure is returned in place of the failure.                          *)
C22_FailuresAreDistinctKinds ==
    failure_cause \in {"provider", "format", "transformation"} =>
        /\ pcTry = "error"
        /\ response.status >= 400
        /\ response.body = <<>>
        /\ \A other \in {"provider", "format", "transformation"} \ {failure_cause} :
              FailureKind(ExceptionFor(other)) # FailureKind(exc)

====
